---- MODULE Spec2Model ----
(***************************************************************************)
(* Fraud Guard scoring pipeline: configuration loading, transaction        *)
(* validation, model prediction, velocity checks, score fusion, decision   *)
(* policy and result construction.                                         *)
(*                                                                         *)
(* Numbers.  Scores, thresholds and score adjustments are reals in [0,1]   *)
(* in the program; here they are integers counting hundredths (One = 1.0). *)
(* Weights count tenths (6 = 0.6), so modelScore * weight is in            *)
(* thousandths and is divided by WeightUnit to come back to hundredths;    *)
(* every score drawn below is a multiple of ten hundredths, which makes    *)
(* that division exact.                                                    *)
(*                                                                         *)
(* Optional values.  A field that may be undefined is a sequence: <<>> is  *)
(* undefined and <<v>> is the value v.                                     *)
(***************************************************************************)
EXTENDS Integers, Sequences, FiniteSets, TLC

VARIABLES
    gen,          \* which FraudGuard generation the instance is: "velocity" | "optional" | "none"
    userConfig,   \* what the configuration file says
    config,       \* FraudGuard.config after loadConfig (None when loading threw)
    psThresholds, \* PredictionService.thresholds, fixed by the constructor
    initialized,  \* FraudGuard.initialized
    pc,           \* position of the check() call in flight
    transaction,  \* its argument
    modelPrediction, \* what predictionService.predict returned (None before)
    velocityService, \* whether FraudGuard.velocityService has been created
    settled,      \* Promise.allSettled's outcomes inside checkVelocity, in order
    velocityResult,  \* what checkVelocity returned (None when not run)
    result,       \* the FraudCheckResult check() returns (None before / on rejection)
    error,        \* the error check() rejects with ("none" otherwise)
    effects,      \* what this call did: predictor invocations, store queries, saves
    predictionService, \* PredictionService: initialized, modelManager, modelPath, reload in flight
    jobs,         \* the scheduled jobs: StorageManager.cleanupJob, RetrainingService.retrainingJob
    pf            \* application of a pure function: its inputs and outputs

vars == << gen, userConfig, config, psThresholds, initialized, pc, transaction,
           modelPrediction, velocityService, settled, velocityResult, result,
           error, effects, predictionService, jobs, pf >>

pipelineVars == << gen, userConfig, config, psThresholds, initialized, pc,
                   transaction, modelPrediction, velocityService, settled,
                   velocityResult, result, error, effects, predictionService, jobs >>

\* what a call of check() leaves alone
instanceVars == << gen, userConfig, config, psThresholds, pf >>

-----------------------------------------------------------------------------
(* Units and optional values *)

One == 100
WeightUnit == 10

None == << >>
Some(v) == << v >>

\* JavaScript  x || d  on an optional number: undefined and 0 are falsy.
JsOr(x, d) == IF x = None THEN d ELSE IF x[1] = 0 THEN d ELSE x[1]

\* JavaScript  x ?? d : only undefined falls through.
Nullish(x, d) == IF x = None THEN d ELSE x[1]

RECURSIVE MaxOf(_)
\* Math.max(...xs) for a non-empty xs
MaxOf(xs) ==
    IF Len(xs) = 1 THEN xs[1]
    ELSE LET m == MaxOf(Tail(xs)) IN IF xs[1] >= m THEN xs[1] ELSE m

RECURSIVE FlatMapReasons(_)
\* results.flatMap(r => r.reasons)
FlatMapReasons(rs) ==
    IF rs = << >> THEN << >> ELSE Head(rs).reasons \o FlatMapReasons(Tail(rs))

-----------------------------------------------------------------------------
(* Decision policy *)

\* a policy whose bands are open at their lower end
determineRiskLevel_open(score, thresholds) ==
    IF score > thresholds.reject THEN "high"
    ELSE IF score > thresholds.review THEN "medium"
    ELSE "low"

determineRiskLevel(score, thresholds) ==
    IF score >= thresholds.reject THEN "high"
    ELSE IF score >= thresholds.review THEN "medium"
    ELSE "low"

determineAction(score, thresholds) ==
    IF score >= thresholds.reject THEN "reject"
    ELSE IF score >= thresholds.review THEN "review"
    ELSE "accept"

\* ResultBuilder's private methods read this.reviewThreshold / this.rejectThreshold
ResultBuilder_determineRiskLevel(self, score) ==
    IF score >= self.rejectThreshold THEN "high"
    ELSE IF score >= self.reviewThreshold THEN "medium"
    ELSE "low"

ResultBuilder_determineAction(self, score) ==
    IF score >= self.rejectThreshold THEN "reject"
    ELSE IF score >= self.reviewThreshold THEN "review"
    ELSE "accept"

-----------------------------------------------------------------------------
(* Velocity result aggregation *)

RECURSIVE SumOf(_)
SumOf(xs) == IF xs = << >> THEN 0 ELSE Head(xs) + SumOf(Tail(xs))

\* an aggregator that adds the scores up
aggregate_sum(results) ==
    LET scores == [i \in 1..Len(results) |-> results[i].score]
        allReasons == FlatMapReasons(SelectSeq(results, LAMBDA r : r.triggered))
    IN [score |-> SumOf(scores), reasons |-> allReasons, checks |-> results]

aggregate(results) ==
    LET scores == [i \in 1..Len(results) |-> results[i].score]
        finalScore == IF Len(scores) > 0 THEN MaxOf(scores) ELSE 0
        allReasons == FlatMapReasons(SelectSeq(results, LAMBDA r : r.triggered))
    IN [score |-> finalScore, reasons |-> allReasons, checks |-> results]

-----------------------------------------------------------------------------
(* Configuration: defaults, merging, validation *)

DEFAULT_review == 40
DEFAULT_reject == 70
DEFAULT_model_weight == 6
DEFAULT_velocity_weight == 4

\* a time window of a velocity check: its limit is optional
Window(period, limit, adj) ==
    [period_minutes |-> period, limit |-> limit, score_adjustment |-> adj]

DEFAULT_frequency ==
    [enabled |-> TRUE,
     time_windows |-> << Window(10, Some(5), 20), Window(60, Some(10), 30),
                         Window(1440, Some(50), 40) >>]

DEFAULT_amount ==
    [enabled |-> TRUE,
     time_windows |-> << Window(60, Some(5000), 20), Window(1440, Some(10000), 30) >>,
     spike_detection |-> Some([enabled |-> TRUE, lookback_days |-> Some(30),
                               multiplier |-> Some(5), score_adjustment |-> Some(40)])]

DEFAULT_failed_transactions ==
    [enabled |-> TRUE,
     time_windows |-> << Window(10, Some(3), 30), Window(60, Some(5), 40) >>]

\* mergeConfigs: user values over defaults; numbers with ||, flags with ??,
\* each velocity check's configuration taken whole from the user when given
mergeConfigs(u) ==
    [thresholds |->
        [review |-> JsOr(u.review, DEFAULT_review),
         reject |-> JsOr(u.reject, DEFAULT_reject)],
     storage |-> [enabled |-> Nullish(u.storage_enabled, FALSE)],
     velocity |->
        [enabled |-> Nullish(u.velocity_enabled, FALSE),
         scoring |->
            [model_weight |-> JsOr(u.model_weight, DEFAULT_model_weight),
             velocity_weight |-> JsOr(u.velocity_weight, DEFAULT_velocity_weight)],
         frequency |-> Nullish(u.frequency, DEFAULT_frequency),
         amount |-> Nullish(u.amount, DEFAULT_amount),
         failed_transactions |-> Nullish(u.failed_transactions,
                                         DEFAULT_failed_transactions)],
     retraining |-> [enabled |-> Nullish(u.retraining_enabled, FALSE)]]

\* validateThresholdConfig: TRUE when it does not throw ConfigurationError.
\* After mergeConfigs both thresholds are defined numbers.
validateThresholdConfig(thresholds) ==
    /\ ~(thresholds.review < 0 \/ thresholds.review > One)
    /\ ~(thresholds.reject < 0 \/ thresholds.reject > One)
    /\ ~(thresholds.review >= thresholds.reject)

\* validateConfig: of the sections modelled only the thresholds can fail
validateConfig(c) == validateThresholdConfig(c.thresholds)

\* loadConfig: Some(config), or None when ConfigurationError is thrown
loadConfig(u) ==
    LET merged == mergeConfigs(u)
    IN IF validateConfig(merged) THEN Some(merged) ELSE None

\* FraudGuard constructor: the thresholds handed to the PredictionService
constructorThresholds(c) ==
    [review |-> JsOr(Some(c.thresholds.review), 40),
     reject |-> JsOr(Some(c.thresholds.reject), 70)]

-----------------------------------------------------------------------------
(* Behavioural history store, read side (VelocityStorageQuery).            *)
(* A snapshot h of the store answers every query; each query returns      *)
(* result?.x || 0, which leaves a number unchanged.                        *)

countTransactions(h, field, periodMinutes) == h.count[field][periodMinutes]

sumAmounts(h, periodMinutes) == h.sum[periodMinutes]

countFailedTransactions(h, periodMinutes) == h.failed[periodMinutes]

getCustomerAgeDays(h) == h.ageDays

getAverageDailySpending(h, lookbackDays) == h.avgDaily

getTodaySpending(h) == h.today

-----------------------------------------------------------------------------
(* Velocity checks *)

\* a JavaScript string used as a condition: undefined and "" are falsy
Truthy(s) == s # None /\ s # Some("")

\* a reason string, kept as its parts: what exceeded, the measured value,
\* the window and the limit the string shows
Reason(kind, value, period, shown) == << kind, value, period, shown >>

ZeroResult(type) ==
    [type |-> type, score |-> 0, triggered |-> FALSE, reasons |-> << >>]

MIN_HISTORY_DAYS == 28

\* one dimension of one frequency window: the pushes to windowScores / windowReasons
FrequencyDimension(present, kind, field, window, maxTransactions, shown, h) ==
    LET count == countTransactions(h, field, window.period_minutes)
    IN IF present /\ count > maxTransactions
       THEN [scores |-> << window.score_adjustment >>,
             reasons |-> << Reason(kind, count, window.period_minutes, shown) >>]
       ELSE [scores |-> << >>, reasons |-> << >>]

\* one iteration of FrequencyCheck.check's loop over the time windows
FrequencyWindow(window, t, h) ==
    LET maxTransactions == JsOr(window.limit, 50)
        c == FrequencyDimension(Truthy(t.customerId), "Customer", "customer_id",
                                window, maxTransactions, Some(maxTransactions), h)
        d == FrequencyDimension(Truthy(t.deviceId), "Device", "device_id",
                                window, maxTransactions, Some(maxTransactions), h)
        i == FrequencyDimension(Truthy(t.ipAddress), "IP", "ip_address",
                                window, maxTransactions, window.limit, h)
        windowScores == c.scores \o d.scores \o i.scores
        windowReasons == c.reasons \o d.reasons \o i.reasons
    IN IF Len(windowScores) > 0
       THEN [scores |-> << MaxOf(windowScores) >>, reasons |-> windowReasons]
       ELSE [scores |-> << >>, reasons |-> << >>]

RECURSIVE FrequencyWindows(_, _, _)
FrequencyWindows(windows, t, h) ==
    IF windows = << >> THEN [scores |-> << >>, reasons |-> << >>]
    ELSE LET w == FrequencyWindow(Head(windows), t, h)
             rest == FrequencyWindows(Tail(windows), t, h)
         IN [scores |-> w.scores \o rest.scores, reasons |-> w.reasons \o rest.reasons]

FrequencyCheck_check(cfg, t, h) ==
    IF Len(cfg.time_windows) = 0 THEN ZeroResult("frequency")
    ELSE LET acc == FrequencyWindows(cfg.time_windows, t, h)
             finalScore == IF Len(acc.scores) > 0 THEN MaxOf(acc.scores) ELSE 0
         IN [type |-> "frequency", score |-> finalScore,
             triggered |-> finalScore > 0, reasons |-> acc.reasons]

RECURSIVE AmountWindows(_, _)
AmountWindows(windows, h) ==
    IF windows = << >> THEN [scores |-> << >>, reasons |-> << >>]
    ELSE LET window == Head(windows)
             totalAmount == sumAmounts(h, window.period_minutes)
             maxAmount == JsOr(window.limit, 5000)
             rest == AmountWindows(Tail(windows), h)
         IN IF totalAmount > maxAmount
            THEN [scores |-> << window.score_adjustment >> \o rest.scores,
                  reasons |-> << Reason("Spent", totalAmount, window.period_minutes,
                                        window.limit) >> \o rest.reasons]
            ELSE rest

\* a spike detection that does not look at the customer's age
checkSpendingSpike_anyAge(spike, h) ==
    LET none == [triggered |-> FALSE, score |-> 0, reasons |-> << >>]
        avgDailySpending == getAverageDailySpending(h, JsOr(spike.lookback_days, 28))
        todaySpending == getTodaySpending(h)
    IN IF avgDailySpending = 0 THEN none
       ELSE IF todaySpending >= JsOr(spike.multiplier, 5) * avgDailySpending
       THEN [triggered |-> TRUE, score |-> JsOr(spike.score_adjustment, 40),
             reasons |-> << Reason("Spending spike", todaySpending, 0,
                                   Some(avgDailySpending)) >>]
       ELSE none

checkSpendingSpike(spike, h) ==
    LET none == [triggered |-> FALSE, score |-> 0, reasons |-> << >>]
        customerAgeDays == getCustomerAgeDays(h)
        lookbackDays == JsOr(spike.lookback_days, 28)
        avgDailySpending == getAverageDailySpending(h, lookbackDays)
        todaySpending == getTodaySpending(h)
        configMultiplier == JsOr(spike.multiplier, 5)
    IN IF customerAgeDays < MIN_HISTORY_DAYS THEN none
       ELSE IF avgDailySpending = 0 THEN none
       \* todaySpending / avgDailySpending >= configMultiplier, avgDailySpending > 0
       ELSE IF todaySpending >= configMultiplier * avgDailySpending
       THEN [triggered |-> TRUE, score |-> JsOr(spike.score_adjustment, 40),
             reasons |-> << Reason("Spending spike", todaySpending, 0,
                                   Some(avgDailySpending)) >>]
       ELSE none

\* this.config.spike_detection?.enabled
SpikeEnabled(cfg) == cfg.spike_detection # None /\ cfg.spike_detection[1].enabled

AmountCheck_check(cfg, t, h) ==
    IF ~Truthy(t.customerId) THEN ZeroResult("amount")
    ELSE LET win == AmountWindows(cfg.time_windows, h)
             spikeResult == IF SpikeEnabled(cfg)
                            THEN checkSpendingSpike(cfg.spike_detection[1], h)
                            ELSE [triggered |-> FALSE, score |-> 0, reasons |-> << >>]
             scores == win.scores \o
                       (IF spikeResult.triggered THEN << spikeResult.score >> ELSE << >>)
             reasons == win.reasons \o
                        (IF spikeResult.triggered THEN spikeResult.reasons ELSE << >>)
             finalScore == IF Len(scores) > 0 THEN MaxOf(scores) ELSE 0
         IN [type |-> "amount", score |-> finalScore,
             triggered |-> finalScore > 0, reasons |-> reasons]

RECURSIVE FailedWindows(_, _)
FailedWindows(windows, h) ==
    IF windows = << >> THEN [scores |-> << >>, reasons |-> << >>]
    ELSE LET window == Head(windows)
             failedCount == countFailedTransactions(h, window.period_minutes)
             maxFailed == JsOr(window.limit, 5)
             rest == FailedWindows(Tail(windows), h)
         IN IF failedCount > maxFailed
            THEN [scores |-> << window.score_adjustment >> \o rest.scores,
                  reasons |-> << Reason("Failed", failedCount, window.period_minutes,
                                        Some(maxFailed)) >> \o rest.reasons]
            ELSE rest

\* a failed-transaction check that queries without a customer
FailedTransactionCheck_check_anonymous(cfg, t, h) ==
    IF Len(cfg.time_windows) = 0 THEN ZeroResult("failed")
    ELSE LET acc == FailedWindows(cfg.time_windows, h)
             finalScore == IF Len(acc.scores) > 0 THEN MaxOf(acc.scores) ELSE 0
         IN [type |-> "failed", score |-> finalScore,
             triggered |-> finalScore > 0, reasons |-> acc.reasons]

FailedTransactionCheck_check(cfg, t, h) ==
    IF ~Truthy(t.customerId) THEN ZeroResult("failed")
    ELSE IF Len(cfg.time_windows) = 0 THEN ZeroResult("failed")
    ELSE LET acc == FailedWindows(cfg.time_windows, h)
             finalScore == IF Len(acc.scores) > 0 THEN MaxOf(acc.scores) ELSE 0
         IN [type |-> "failed", score |-> finalScore,
             triggered |-> finalScore > 0, reasons |-> acc.reasons]

\* the store queries FrequencyCheck.check awaits
FrequencyCheck_queries(cfg, t) ==
    IF Len(cfg.time_windows) = 0 THEN { }
    ELSE IF Truthy(t.customerId) \/ Truthy(t.deviceId) \/ Truthy(t.ipAddress)
    THEN { "countTransactions" } ELSE { }

\* the store queries AmountCheck.check and checkSpendingSpike await
AmountCheck_queries(cfg, t, h) ==
    IF ~Truthy(t.customerId) THEN { }
    ELSE (IF Len(cfg.time_windows) > 0 THEN { "sumAmounts" } ELSE { })
         \cup (IF ~SpikeEnabled(cfg) THEN { }
               ELSE IF getCustomerAgeDays(h) < MIN_HISTORY_DAYS
               THEN { "getCustomerAgeDays" }
               ELSE { "getCustomerAgeDays", "getAverageDailySpending",
                      "getTodaySpending" })

\* the store queries FailedTransactionCheck.check awaits
FailedTransactionCheck_queries(cfg, t) ==
    IF ~Truthy(t.customerId) THEN { }
    ELSE IF Len(cfg.time_windows) = 0 THEN { }
    ELSE { "countFailedTransactions" }

\* whether a check awaits at least one store query for this transaction
IssuesQuery(type, vcfg, t) ==
    CASE type = "frequency" ->
            /\ Len(vcfg.frequency.time_windows) > 0
            /\ (Truthy(t.customerId) \/ Truthy(t.deviceId) \/ Truthy(t.ipAddress))
      [] type = "amount" ->
            /\ Truthy(t.customerId)
            /\ (Len(vcfg.amount.time_windows) > 0 \/ SpikeEnabled(vcfg.amount))
      [] type = "failed" ->
            /\ Truthy(t.customerId)
            /\ Len(vcfg.failed_transactions.time_windows) > 0

\* the promise a check returns: rejected when a store query of its fails
\* (StorageError), fulfilled with its result otherwise
CheckPromise(type, vcfg, t, h, broken) ==
    IF type \in broken /\ IssuesQuery(type, vcfg, t)
    THEN [name |-> type, status |-> "rejected", value |-> None]
    ELSE [name |-> type, status |-> "fulfilled",
          value |-> Some(
              CASE type = "frequency" -> FrequencyCheck_check(vcfg.frequency, t, h)
                [] type = "amount" -> AmountCheck_check(vcfg.amount, t, h)
                [] type = "failed" ->
                      FailedTransactionCheck_check(vcfg.failed_transactions, t, h))]

\* every check started, enabled or not
allSettled_all(vcfg, t, h, broken) ==
    << CheckPromise("frequency", vcfg, t, h, broken),
       CheckPromise("amount", vcfg, t, h, broken),
       CheckPromise("failed", vcfg, t, h, broken) >>

\* Promise.race in the place of Promise.allSettled: the first promise only
allSettled_race(vcfg, t, h, broken) ==
    IF vcfg.frequency.enabled
    THEN << CheckPromise("frequency", vcfg, t, h, broken) >>
    ELSE IF vcfg.amount.enabled
    THEN << CheckPromise("amount", vcfg, t, h, broken) >>
    ELSE IF vcfg.failed_transactions.enabled
    THEN << CheckPromise("failed", vcfg, t, h, broken) >>
    ELSE << >>

\* VelocityService.checkVelocity up to Promise.allSettled: the promises of the
\* enabled checks, in order, settled
allSettled(vcfg, t, h, broken) ==
    (IF vcfg.frequency.enabled
     THEN << CheckPromise("frequency", vcfg, t, h, broken) >> ELSE << >>)
    \o (IF vcfg.amount.enabled
        THEN << CheckPromise("amount", vcfg, t, h, broken) >> ELSE << >>)
    \o (IF vcfg.failed_transactions.enabled
        THEN << CheckPromise("failed", vcfg, t, h, broken) >> ELSE << >>)

\* a loop that keeps no result of the settled promises
SettledToResult_lost(p) ==
    [type |-> p.name, score |-> 0, triggered |-> FALSE, reasons |-> << >>]

\* the forEach over the settled results: a fulfilled promise gives its value,
\* a rejected one a zero-score result under the check's name
SettledToResult(p) ==
    IF p.status = "fulfilled" THEN p.value[1]
    ELSE [type |-> p.name, score |-> 0, triggered |-> FALSE, reasons |-> << >>]

checkVelocity(settledResults) ==
    IF Len(settledResults) = 0
    THEN [score |-> 0, reasons |-> << >>, checks |-> << >>]
    ELSE aggregate([i \in 1..Len(settledResults) |-> SettledToResult(settledResults[i])])

-----------------------------------------------------------------------------
(* Transactions and their validation *)

\* An amount is [k, v]: k = "num" is the finite number v; "nan", "inf" and
\* "ninf" are NaN, Infinity and -Infinity; "undefined" is a missing field.
Num(v) == [k |-> "num", v |-> v]

AmountLt0(a) == (a.k = "num" /\ a.v < 0) \/ a.k = "ninf"

IsFinite(a) == a.k = "num"

\* string.trim() on the strings drawn below
Trim(str) == IF str = " " THEN "" ELSE str

TransactionCategory ==
    { "entertainment", "food_dining", "gas_transport", "grocery_net",
      "grocery_pos", "health_fitness", "home", "kids_pets", "misc_net",
      "misc_pos", "personal_care", "shopping_net", "shopping_pos", "travel" }

\* a validation that lets NaN through
validateAmount_nan(amount) ==
    /\ amount.k # "undefined"
    /\ ~AmountLt0(amount)
    /\ amount.k \in { "num", "nan" }

\* each validateX is TRUE when the function returns without throwing
validateAmount(amount) ==
    /\ amount.k # "undefined"
    /\ ~AmountLt0(amount)
    /\ IsFinite(amount)

\* timestamp: "valid" is a Date with a time, "invalid" a Date whose time is
\* NaN, "undefined" a missing field
validateTimestamp(timestamp) == timestamp = "valid"

validateCategory(category) ==
    /\ Truthy(category)
    /\ category[1] \in TransactionCategory

validateTransactionId(id) == Trim(id) # ""

validateCustomerId(customerId) == Trim(customerId) # ""

validateWalletBalance(balance) == ~AmountLt0(balance) /\ IsFinite(balance)

validateIpAddress(ip) == Trim(ip) # ""

validateDeviceId(deviceId) == Trim(deviceId) # ""

\* validateTransaction: "ok", or the field whose check throws ValidationError
validateTransaction(t) ==
    IF ~validateAmount(t.amount) THEN "amount"
    ELSE IF ~validateTimestamp(t.timestamp) THEN "timestamp"
    ELSE IF ~validateCategory(t.category) THEN "category"
    ELSE IF t.id # None /\ ~validateTransactionId(t.id[1]) THEN "id"
    ELSE IF t.customerId # None /\ ~validateCustomerId(t.customerId[1]) THEN "customerId"
    ELSE IF t.walletBalance # None /\ ~validateWalletBalance(t.walletBalance[1])
         THEN "walletBalance"
    ELSE IF t.ipAddress # None /\ ~validateIpAddress(t.ipAddress[1]) THEN "ipAddress"
    ELSE IF t.deviceId # None /\ ~validateDeviceId(t.deviceId[1]) THEN "deviceId"
    ELSE "ok"

\* validateTransactionForStorage: the transaction's own validation, then the
\* identifier and the customer identifier are mandatory
validateTransactionForStorage(t) ==
    IF validateTransaction(t) # "ok" THEN validateTransaction(t)
    ELSE IF ~Truthy(t.id) THEN "id"
    ELSE IF ~Truthy(t.customerId) THEN "customerId"
    ELSE "ok"

-----------------------------------------------------------------------------
(* Feature extraction and model prediction *)

\* oneHotEncodeCategory: Some(the slot set to 1), None when ModelError is thrown
oneHotEncodeCategory(category) ==
    IF category # None /\ category[1] \in TransactionCategory
    THEN Some(category[1]) ELSE None

\* extractFeatures: Some(features), None when it throws.  The time features are
\* read off the Date; only the encoding of the category can throw.
extractFeatures(t) ==
    LET categoryOneHot == oneHotEncodeCategory(t.category)
    IN IF categoryOneHot = None THEN None
       ELSE Some([amt |-> t.amount, timestamp |-> t.timestamp,
                  category |-> categoryOneHot[1]])

\* JavaScript's a - b on numbers: NaN when an operand is NaN
JsMinus(a, b) ==
    IF a.k = "num" /\ b.k = "num" THEN Num(a.v - b.v) ELSE [k |-> "nan", v |-> 0]

\* JavaScript's a / b for a difference a and a scale b: the quotient n/d (d > 0)
\* when both are numbers and b is not 0; x/0 is Infinity, -Infinity or NaN
JsDivide(a, b) ==
    IF a.k # "num" \/ b.k # "num" THEN [k |-> "nan", n |-> 0, d |-> 1]
    ELSE IF b.v = 0
         THEN [k |-> IF a.v > 0 THEN "inf" ELSE IF a.v < 0 THEN "ninf" ELSE "nan",
               n |-> 0, d |-> 1]
    ELSE IF b.v < 0 THEN [k |-> "num", n |-> 0 - a.v, d |-> 0 - b.v]
    ELSE [k |-> "num", n |-> a.v, d |-> b.v]

\* featureVectorToArray: the features in the order of the scaler's columns;
\* None when a column is not a feature (ModelError)
featureVectorToArray(features, featureColumns) ==
    IF \E i \in 1..Len(featureColumns) : featureColumns[i] \notin DOMAIN features
    THEN None
    ELSE Some([i \in 1..Len(featureColumns) |-> features[featureColumns[i]]])

\* a standardization that pushes every quotient, finite or not
standardizeFeatures_unchecked(features, mean, std) ==
    IF Len(features) # Len(mean) \/ Len(features) # Len(std) THEN None
    ELSE Some([i \in 1..Len(features) |-> JsDivide(JsMinus(features[i], mean[i]), std[i])])

\* standardizeFeatures: None when ModelError is thrown
standardizeFeatures(features, mean, std) ==
    IF Len(features) # Len(mean) \/ Len(features) # Len(std) THEN None
    ELSE LET standardized ==
                 [i \in 1..Len(features) |->
                     JsDivide(JsMinus(features[i], mean[i]), std[i])]
         IN IF \E i \in 1..Len(features) : ~IsFinite(standardized[i]) THEN None
            ELSE Some(standardized)

\* TensorFlowInference.predict on the model's output: the score when it is a
\* finite number in [0,1], ModelError otherwise
inferenceScore(out) ==
    IF out.k # "num" \/ out.v < 0 \/ out.v > One THEN None ELSE Some(out.v)

\* a predictor that answers a score of its own when the model fails
ModelManager_predict_fallback(t, scalerOk, out) ==
    IF extractFeatures(t) = None THEN [score |-> Some(50), inferred |-> FALSE]
    ELSE IF ~scalerOk THEN [score |-> Some(50), inferred |-> FALSE]
    ELSE [score |-> IF inferenceScore(out) = None THEN Some(50) ELSE inferenceScore(out),
          inferred |-> TRUE]

\* ModelManager.predict: extraction, standardization (scalerOk: the scaler
\* loaded with the model standardizes to finite values), inference.
\* [score, inferred]: score is None when ModelError is thrown, inferred says
\* whether the model was run.
ModelManager_predict(t, scalerOk, out) ==
    IF extractFeatures(t) = None THEN [score |-> None, inferred |-> FALSE]
    ELSE IF ~scalerOk THEN [score |-> None, inferred |-> FALSE]
    ELSE [score |-> inferenceScore(out), inferred |-> TRUE]

-----------------------------------------------------------------------------
(* Result construction *)

ModelReason(text) == Reason(text, 0, 0, None)

generateReasons(score) ==
    IF score >= 70 THEN << ModelReason("High fraud probability detected by AI model") >>
    ELSE IF score >= 40
         THEN << ModelReason("Moderate fraud risk indicated by transaction patterns") >>
    ELSE << ModelReason("Transaction appears legitimate based on AI analysis") >>

\* buildFraudCheckResult, as PredictionService.predict calls it (no velocity arguments)
buildFraudCheckResult(t, score, thresholds) ==
    LET finalVelocityScore == JsOr(None, 0)
        finalScore == score
    IN [transactionId |-> t.id, modelScore |-> score,
        velocityScore |-> finalVelocityScore, score |-> finalScore,
        risk |-> determineRiskLevel(finalScore, thresholds),
        action |-> determineAction(finalScore, thresholds),
        reasons |-> generateReasons(score)]

\* buildResult, as FraudGuard.check calls it
buildResult(t, modelScore, velocityScore, finalScore, velocityReasons, thresholdsConfig) ==
    LET thresholds == [review |-> JsOr(Some(thresholdsConfig.review), 40),
                       reject |-> JsOr(Some(thresholdsConfig.reject), 70)]
    IN [transactionId |-> t.id, modelScore |-> modelScore,
        velocityScore |-> velocityScore, score |-> finalScore,
        risk |-> determineRiskLevel(finalScore, thresholds),
        action |-> determineAction(finalScore, thresholds),
        reasons |-> generateReasons(modelScore) \o velocityReasons]

\* a fusion that weighs the two scores whatever the velocity score is
combineScores_always(modelScore, velocityScore, c) ==
    LET modelWeight == JsOr(Some(c.velocity.scoring.model_weight), 6)
        velocityWeight == JsOr(Some(c.velocity.scoring.velocity_weight), 4)
    IN IF c.velocity.enabled
       THEN (modelScore * modelWeight + velocityScore * velocityWeight) \div WeightUnit
       ELSE modelScore

\* FraudGuard.check, step 3: the fused score
combineScores(modelScore, velocityScore, c) ==
    LET modelWeight == JsOr(Some(c.velocity.scoring.model_weight), 6)
        velocityWeight == JsOr(Some(c.velocity.scoring.velocity_weight), 4)
    IN IF c.velocity.enabled /\ velocityScore > 0
       THEN (modelScore * modelWeight + velocityScore * velocityWeight) \div WeightUnit
       ELSE modelScore

-----------------------------------------------------------------------------
(* Optional context adjustments (PredictionService of the "optional"       *)
(* generation).  Amounts reaching them have passed validation: finite, >= 0 *)

\* (amount / walletBalance) * 100 >= pct, with JavaScript's division by zero:
\* x/0 is Infinity for x > 0 and NaN for x = 0
PercentageAtLeast(amount, walletBalance, pct) ==
    IF walletBalance = 0 THEN amount > 0
    ELSE amount * 100 >= pct * walletBalance

checkWalletBalance(amount, walletBalance) ==
    LET exceeds == IF amount > walletBalance
                   THEN [reasons |-> << ModelReason("Transaction amount exceeds wallet balance") >>,
                         adj |-> 15]
                   ELSE [reasons |-> << >>, adj |-> 0]
        drain == IF PercentageAtLeast(amount, walletBalance, 95)
                 THEN [reasons |-> << ModelReason("Transaction draining wallet balance (>=95%)") >>,
                       adj |-> 10]
                 ELSE IF PercentageAtLeast(amount, walletBalance, 80)
                 THEN [reasons |-> << ModelReason("Large percentage of wallet balance (>=80%)") >>,
                       adj |-> 5]
                 ELSE [reasons |-> << >>, adj |-> 0]
        zero == IF walletBalance = 0 /\ amount > 0
                THEN [reasons |-> << ModelReason("Transaction attempted with zero wallet balance") >>,
                      adj |-> 10]
                ELSE [reasons |-> << >>, adj |-> 0]
    IN [reasons |-> exceeds.reasons \o drain.reasons \o zero.reasons,
        scoreAdjustment |-> exceeds.adj + drain.adj + zero.adj]

\* the address patterns /^10\./, /^172\.(1[6-9]|2[0-9]|3[0-1])\./, /^192\.168\./
\* on the addresses drawn below
isPrivateIp(ip) == ip \in { "10.0.0.1", "172.16.0.1", "192.168.1.1" }

isLocalhostIp(ip) == ip \in { "127.0.0.1", "::1", "localhost" }

checkIpAddress(ipAddress) ==
    IF isPrivateIp(ipAddress) THEN [reasons |-> << >>, scoreAdjustment |-> 0]
    ELSE IF isLocalhostIp(ipAddress)
    THEN [reasons |-> << ModelReason("Transaction from localhost IP address") >>,
          scoreAdjustment |-> 5]
    ELSE [reasons |-> << >>, scoreAdjustment |-> 0]

checkDeviceId(deviceId) ==
    IF deviceId = "" \/ Trim(deviceId) = ""
    THEN [reasons |-> << ModelReason("Missing or empty device identifier") >>,
          scoreAdjustment |-> 5]
    ELSE [reasons |-> << >>, scoreAdjustment |-> 0]

\* PredictionService's private methods read this.thresholds
PredictionService_determineRiskLevel(thresholds, score) ==
    IF score >= thresholds.reject THEN "high"
    ELSE IF score >= thresholds.review THEN "medium"
    ELSE "low"

PredictionService_determineAction(thresholds, score) ==
    IF score >= thresholds.reject THEN "reject"
    ELSE IF score >= thresholds.review THEN "review"
    ELSE "accept"

\* Math.max(0, Math.min(1, x))
Clamp01(x) == IF x < 0 THEN 0 ELSE IF x > One THEN One ELSE x

\* adjustments that move the score and leave tier and action as they were
applyOptionalFieldChecks_stale(t, res, thresholds) ==
    LET none == [reasons |-> << >>, scoreAdjustment |-> 0]
        walletChecks == IF t.walletBalance # None
                        THEN checkWalletBalance(t.amount.v, t.walletBalance[1].v)
                        ELSE none
        ipChecks == IF Truthy(t.ipAddress) THEN checkIpAddress(t.ipAddress[1]) ELSE none
        deviceChecks == IF Truthy(t.deviceId) THEN checkDeviceId(t.deviceId[1]) ELSE none
        scoreAdjustment == walletChecks.scoreAdjustment + ipChecks.scoreAdjustment
                           + deviceChecks.scoreAdjustment
    IN [res EXCEPT !.reasons = @ \o walletChecks.reasons \o ipChecks.reasons
                                  \o deviceChecks.reasons,
                   !.score = Clamp01(@ + scoreAdjustment)]

applyOptionalFieldChecks(t, res, thresholds) ==
    LET none == [reasons |-> << >>, scoreAdjustment |-> 0]
        walletChecks == IF t.walletBalance # None
                        THEN checkWalletBalance(t.amount.v, t.walletBalance[1].v)
                        ELSE none
        ipChecks == IF Truthy(t.ipAddress) THEN checkIpAddress(t.ipAddress[1]) ELSE none
        deviceChecks == IF Truthy(t.deviceId) THEN checkDeviceId(t.deviceId[1]) ELSE none
        additionalReasons == walletChecks.reasons \o ipChecks.reasons \o deviceChecks.reasons
        scoreAdjustment == walletChecks.scoreAdjustment + ipChecks.scoreAdjustment
                           + deviceChecks.scoreAdjustment
        withReasons == [res EXCEPT !.reasons = @ \o additionalReasons]
        newScore == Clamp01(res.score + scoreAdjustment)
    IN IF scoreAdjustment # 0 /\ newScore # res.score
       THEN [withReasons EXCEPT !.score = newScore,
                                !.risk = PredictionService_determineRiskLevel(thresholds, newScore),
                                !.action = PredictionService_determineAction(thresholds, newScore)]
       ELSE withReasons

-----------------------------------------------------------------------------
(* Inputs *)

UserThresholds ==
    { << None, None >>, << Some(0), Some(50) >>, << Some(50), Some(100) >>,
      << Some(70), Some(40) >>, << Some(50), Some(0) >> }

\* (model_weight, velocity_weight) as the user gives them, in tenths
UserWeights ==
    { << None, None >>, << Some(0), Some(10) >>, << Some(10), Some(0) >>,
      << Some(10), Some(10) >>, << Some(5), Some(5) >> }

Disabled(checkConfig) == Some([checkConfig EXCEPT !.enabled = FALSE])

\* the velocity section's three check configurations as the user gives them:
\* none given (the defaults, all enabled), only the frequency check left
\* enabled, all three disabled
UserChecks ==
    { [frequency |-> None, amount |-> None, failed_transactions |-> None],
      [frequency |-> None, amount |-> Disabled(DEFAULT_amount),
       failed_transactions |-> Disabled(DEFAULT_failed_transactions)],
      [frequency |-> Disabled(DEFAULT_frequency), amount |-> Disabled(DEFAULT_amount),
       failed_transactions |-> Disabled(DEFAULT_failed_transactions)] }

DefaultChecks == [frequency |-> None, amount |-> None, failed_transactions |-> None]

UserConfig(th, w, st, ve, ch) ==
    [review |-> th[1], reject |-> th[2], model_weight |-> w[1], velocity_weight |-> w[2],
     storage_enabled |-> st, velocity_enabled |-> ve,
     frequency |-> ch.frequency, amount |-> ch.amount,
     failed_transactions |-> ch.failed_transactions, retraining_enabled |-> None]

\* the same file with retraining switched on
WithRetraining(u) == [u EXCEPT !.retraining_enabled = Some(TRUE)]

\* configuration files: every threshold pair with and without storage and
\* velocity; every weight pair and every check configuration where the
\* velocity checks run
UserConfigs ==
    { UserConfig(th, << None, None >>, st, ve, DefaultChecks) :
        th \in UserThresholds, st \in { None, Some(TRUE) }, ve \in { None, Some(TRUE) } }
    \cup { UserConfig(<< None, None >>, w, st, Some(TRUE), DefaultChecks) :
             w \in UserWeights, st \in { None, Some(TRUE) } }
    \cup { UserConfig(<< None, None >>, w, None, None, DefaultChecks) : w \in UserWeights }
    \cup { UserConfig(<< None, None >>, << None, None >>, Some(TRUE), Some(TRUE), ch) :
             ch \in UserChecks }

\* a configuration file with storage and retraining, velocity left off
LifecycleUserConfigs ==
    { WithRetraining(UserConfig(<< None, None >>, << None, None >>, Some(TRUE), None,
                                DefaultChecks)) }

\* the configuration files of the "optional" generation carry thresholds and
\* the storage switch only
OptionalUserConfigs ==
    { u \in UserConfigs : /\ u.model_weight = None /\ u.velocity_weight = None
                          /\ u.velocity_enabled = None
                          /\ u.frequency = None /\ u.amount = None
                          /\ u.failed_transactions = None }

Amounts == { Num(0 - 1), [k |-> "nan", v |-> 0], [k |-> "inf", v |-> 0], Num(0), Num(100) }

Timestamps == { "valid", "invalid" }

Categories == { Some("shopping_net"), Some("bogus") }

\* which identifiers a transaction carries
IdShapes ==
    { [id |-> None, customerId |-> None, deviceId |-> None, ipAddress |-> None],
      [id |-> Some("tx1"), customerId |-> None, deviceId |-> None, ipAddress |-> None],
      [id |-> Some("tx1"), customerId |-> Some("c1"), deviceId |-> None, ipAddress |-> None],
      [id |-> Some("tx1"), customerId |-> Some("c1"), deviceId |-> Some("d1"),
       ipAddress |-> None],
      [id |-> Some("tx1"), customerId |-> Some("c1"), deviceId |-> Some("d1"),
       ipAddress |-> Some("8.8.8.8")] }

Transaction(a, ts, cat, s) ==
    [amount |-> a, timestamp |-> ts, category |-> cat, id |-> s.id,
     customerId |-> s.customerId, deviceId |-> s.deviceId, ipAddress |-> s.ipAddress,
     walletBalance |-> None]

\* every amount with every set of identifiers, and every amount with a bad
\* timestamp or category
Transactions ==
    { Transaction(a, "valid", Some("shopping_net"), s) : a \in Amounts, s \in IdShapes }
    \cup { Transaction(a, ts, cat, [id |-> Some("tx1"), customerId |-> Some("c1"),
                                    deviceId |-> None, ipAddress |-> None]) :
              a \in Amounts, ts \in Timestamps, cat \in Categories }

\* a payment of 150 from a wallet that holds 100
WalletTransactions ==
    { [Transaction(Num(150), "valid", Some("shopping_net"),
                   [id |-> Some("tx1"), customerId |-> Some("c1"), deviceId |-> None,
                    ipAddress |-> None])
         EXCEPT !.walletBalance = Some(Num(100))] }

\* a valid and an invalid transaction
LifecycleTransactions ==
    { Transaction(a, "valid", Some("shopping_net"),
                  [id |-> Some("tx1"), customerId |-> Some("c1"), deviceId |-> None,
                   ipAddress |-> None]) : a \in { Num(100), [k |-> "nan", v |-> 0] } }

\* transactions for the optional context adjustments
OptionalTransactions ==
    { [amount |-> a, timestamp |-> "valid", category |-> Some("shopping_net"),
       id |-> Some("tx1"), customerId |-> Some("c1"), deviceId |-> d, ipAddress |-> ip,
       walletBalance |-> w] :
         a \in { Num(0 - 1), Num(0), Num(79), Num(80), Num(95), Num(100), Num(150) },
         d \in { None, Some(""), Some(" "), Some("d1") },
         ip \in { None, Some("10.0.0.1"), Some("127.0.0.1"), Some("8.8.8.8") },
         w \in { None, Some(Num(0)), Some(Num(100)) } }

\* what the model can output for a standardized vector
ModelScores == { 0, 40, 70, 100 }

ModelOutputs == { Num(m) : m \in ModelScores } \cup { [k |-> "nan", v |-> 0], Num(110) }

Periods == { 10, 60, 1440 }

Flat(n) == [p \in Periods |-> n]

\* snapshots of the store: the customer's (and the device's and address's)
\* transactions, spending and failures, all recent enough to fall in every
\* window; quiet or over the limits
Histories ==
    { [count |-> [customer_id |-> Flat(f[1]), device_id |-> Flat(f[2]),
                  ip_address |-> Flat(f[2])],
       sum |-> Flat(sp[1]), ageDays |-> sp[2], avgDaily |-> 10, today |-> 50,
       failed |-> Flat(fl)] :
         f \in { << 3, 0 >>, << 7, 11 >> },
         sp \in { << 5000, 27 >>, << 5001, 28 >> },
         fl \in { 3, 6 } }

CheckTypes == { "frequency", "amount", "failed" }

\* the checks whose store queries reject during one call: none, one, two, all
BrokenSets == { {}, { "frequency" }, { "amount", "failed" }, CheckTypes }

\* what one call of check() did to its surroundings: initFailure is what
\* failed to load during its initialization ("storage", "model"), env is what the scaler
\* and the model answered to predict, inferred whether the model was run,
\* queried the checks that queried the store, failed those whose query
\* rejected, saved whether the prediction was persisted
NoEffects == [initFailure |-> "none", env |-> None, inferred |-> FALSE,
              queried |-> {}, failed |-> {}, saved |-> FALSE]

IdleTransaction ==
    [amount |-> Num(0), timestamp |-> "valid", category |-> None, id |-> None,
     customerId |-> None, deviceId |-> None, ipAddress |-> None, walletBalance |-> None]

-----------------------------------------------------------------------------
(* The instance: construction, check(), close() and the model reload *)

MaxJobs == 2

\* the PredictionService the constructor creates: nothing loaded
NewPredictionService ==
    [initialized |-> FALSE, modelManager |-> FALSE, modelPath |-> "v1",
     reloading |-> FALSE]

\* no cron task scheduled, no RetrainingService
NoJobs == [cleanupJob |-> FALSE, cleanup |-> 0, retrainingService |-> FALSE,
           retraining |-> 0]

\* the state after  new FraudGuard()  for a configuration file u
Constructed(g, u) ==
    /\ gen = g
    /\ userConfig = u
    /\ config = loadConfig(u)
    /\ psThresholds = IF loadConfig(u) = None THEN None
                      ELSE Some(constructorThresholds(loadConfig(u)[1]))
    /\ initialized = FALSE
    /\ velocityService = FALSE
    /\ pc = IF loadConfig(u) = None THEN "configError" ELSE "idle"
    /\ transaction = IdleTransaction
    /\ modelPrediction = None
    /\ settled = << >>
    /\ velocityResult = None
    /\ result = None
    /\ error = "none"
    /\ effects = NoEffects
    /\ predictionService = NewPredictionService
    /\ jobs = NoJobs

Init ==
    /\ \/ \E u \in UserConfigs \cup LifecycleUserConfigs : Constructed("velocity", u)
       \/ \E u \in OptionalUserConfigs : Constructed("optional", u)
    /\ pf = [fn |-> "idle"]

cfg == config[1]

\* this.storageManager, created by the constructor
StorageManagerPresent == cfg.storage.enabled

Rejected(kind) ==
    /\ pc' = "rejected"
    /\ error' = kind
    /\ result' = None

\* an initialize that marks the service initialized whether or not the model
\* loaded
PredictionService_initialize_unchecked(ps, loads) ==
    IF ps.initialized THEN ps
    ELSE [ps EXCEPT !.modelManager = TRUE, !.initialized = TRUE]

\* PredictionService.initialize when the environment lets the model load
\* (loads) or not: returns at once when already initialized
PredictionService_initialize(ps, loads) ==
    IF ps.initialized THEN ps
    ELSE [ps EXCEPT !.modelManager = TRUE, !.initialized = loads]

\* FraudGuard.ensureInitialized on an uninitialized instance of the "velocity"
\* generation: storage, cleanup job and velocity service, then the prediction
\* service, then the retraining service and its job.  o is what the
\* environment does: "ok", "storageFails", "modelFails".
ensureInitialized(o) ==
    LET hasStorage == StorageManagerPresent /\ cfg.storage.enabled
        storageFailed == hasStorage /\ o = "storageFails"
        storageUp == hasStorage /\ ~storageFailed
        jobs1 == IF storageUp
                 THEN [jobs EXCEPT !.cleanupJob = TRUE, !.cleanup = @ + 1]
                 ELSE jobs
        ps1 == IF storageFailed THEN predictionService
               ELSE PredictionService_initialize(predictionService, o # "modelFails")
        modelFailed == /\ ~storageFailed /\ ~predictionService.initialized
                       /\ o = "modelFails"
        ok == ~storageFailed /\ ps1.initialized
        jobs2 == IF ok /\ StorageManagerPresent /\ cfg.retraining.enabled
                 THEN [jobs1 EXCEPT !.retrainingService = TRUE, !.retraining = @ + 1]
                 ELSE jobs1
    IN [ok |-> ok,
        failure |-> IF storageFailed THEN "storage"
                    ELSE IF modelFailed THEN "model" ELSE "none",
        velocityService |-> velocityService \/ (storageUp /\ cfg.velocity.enabled),
        predictionService |-> ps1,
        jobs |-> jobs2]

\* ensureInitialized of the "optional" generation: the prediction service,
\* then storage; no job, no velocity service
ensureInitializedOptional(o) ==
    LET ps1 == PredictionService_initialize(predictionService, o # "modelFails")
        modelFailed == ~predictionService.initialized /\ o = "modelFails"
        storageFailed == /\ ps1.initialized
                         /\ StorageManagerPresent /\ cfg.storage.enabled
                         /\ o = "storageFails"
    IN [ok |-> ps1.initialized /\ ~storageFailed,
        failure |-> IF modelFailed THEN "model"
                    ELSE IF storageFailed THEN "storage" ELSE "none",
        velocityService |-> velocityService,
        predictionService |-> ps1,
        jobs |-> jobs]

\* check(): ensureInitialized, then validation.  initOutcome is what the
\* environment does to an initialization.
CheckStart(t, initOutcome) ==
    /\ pc = "idle"
    /\ LET e == IF initialized
                THEN [ok |-> TRUE, failure |-> "none",
                      velocityService |-> velocityService,
                      predictionService |-> predictionService, jobs |-> jobs]
                ELSE IF gen = "velocity" THEN ensureInitialized(initOutcome)
                ELSE ensureInitializedOptional(initOutcome)
           valid == IF cfg.storage.enabled THEN validateTransactionForStorage(t)
                    ELSE validateTransaction(t)
       IN /\ e.jobs.cleanup <= MaxJobs
          /\ e.jobs.retraining <= MaxJobs
          /\ velocityService' = e.velocityService
          /\ predictionService' = e.predictionService
          /\ jobs' = e.jobs
          /\ initialized' = e.ok
          /\ effects' = [NoEffects EXCEPT !.initFailure = e.failure]
          /\ IF ~e.ok THEN Rejected("InitializationError")
             ELSE IF valid # "ok" THEN Rejected("ValidationError")
             ELSE /\ pc' = "predict"
                  /\ UNCHANGED << result, error >>
    /\ transaction' = t
    /\ UNCHANGED << instanceVars, modelPrediction, settled, velocityResult >>

\* predictionService.predict of the "velocity" generation
Predict(scalerOk, out) ==
    /\ pc = "predict"
    /\ gen = "velocity"
    /\ IF ~predictionService.initialized \/ ~predictionService.modelManager
       THEN /\ Rejected("ModelError")
            /\ UNCHANGED << modelPrediction, effects >>
       ELSE LET p == ModelManager_predict(transaction, scalerOk, out)
            IN /\ effects' = [effects EXCEPT !.inferred = p.inferred,
                                             !.env = Some([scalerOk |-> scalerOk,
                                                           out |-> out])]
               /\ IF p.score = None
                  THEN /\ Rejected("ModelError")
                       /\ UNCHANGED modelPrediction
                  ELSE /\ modelPrediction' =
                             Some(buildFraudCheckResult(transaction, p.score[1],
                                                        psThresholds[1]))
                       /\ pc' = "velocity"
                       /\ UNCHANGED << result, error >>
    /\ UNCHANGED << instanceVars, initialized, transaction, velocityService, settled,
                    velocityResult, predictionService, jobs >>

\* predictionService.predict of the "optional" generation: the result is what
\* check() stores and returns
PredictOptional(scalerOk, out) ==
    /\ pc = "predict"
    /\ gen = "optional"
    /\ IF ~predictionService.initialized \/ ~predictionService.modelManager
       THEN /\ Rejected("ModelError")
            /\ UNCHANGED << modelPrediction, effects >>
       ELSE LET p == ModelManager_predict(transaction, scalerOk, out)
            IN /\ effects' = [effects EXCEPT !.inferred = p.inferred,
                                             !.env = Some([scalerOk |-> scalerOk,
                                                           out |-> out])]
               /\ IF p.score = None
                  THEN /\ Rejected("ModelError")
                       /\ UNCHANGED modelPrediction
                  ELSE LET built == buildFraudCheckResult(transaction, p.score[1],
                                                          psThresholds[1])
                           res == applyOptionalFieldChecks(transaction, built,
                                                           psThresholds[1])
                       IN /\ modelPrediction' = Some(res)
                          /\ result' = Some(res)
                          /\ pc' = "save"
                          /\ UNCHANGED error
    /\ UNCHANGED << instanceVars, initialized, transaction, velocityService, settled,
                    velocityResult, predictionService, jobs >>

\* the checks whose store queries are issued for a transaction
Querying(outcomes) ==
    { ty \in CheckTypes :
        /\ \E i \in 1..Len(outcomes) : outcomes[i].name = ty
        /\ IssuesQuery(ty, cfg.velocity, transaction) }

\* check(), step 2: the velocity checks when the service exists and velocity
\* is enabled, awaited until all have settled
Velocity(h, broken) ==
    /\ pc = "velocity"
    /\ LET run == velocityService /\ cfg.velocity.enabled
           outcomes == IF run THEN allSettled(cfg.velocity, transaction, h, broken)
                       ELSE << >>
           querying == IF run THEN Querying(outcomes) ELSE {}
       IN /\ settled' = outcomes
          /\ velocityResult' = IF run THEN Some(checkVelocity(outcomes)) ELSE None
          /\ effects' = [effects EXCEPT !.queried = querying,
                                        !.failed = querying \cap broken]
    /\ pc' = "build"
    /\ UNCHANGED << instanceVars, initialized, transaction, modelPrediction,
                    velocityService, result, error, predictionService, jobs >>

\* check(), steps 3 and 4: the fused score, then buildResult with the model
\* version read from the prediction service
Build ==
    /\ pc = "build"
    /\ IF ~predictionService.modelManager
       THEN Rejected("ModelError")
       ELSE LET modelScore == modelPrediction[1].score
                velocityScore == IF velocityResult = None THEN 0
                                 ELSE JsOr(Some(velocityResult[1].score), 0)
                finalScore == combineScores(modelScore, velocityScore, cfg)
                velocityReasons == IF velocityResult = None THEN << >>
                                   ELSE velocityResult[1].reasons
            IN /\ result' = Some(buildResult(transaction, modelScore, velocityScore,
                                             finalScore, velocityReasons,
                                             cfg.thresholds))
               /\ pc' = "save"
               /\ UNCHANGED error
    /\ UNCHANGED << instanceVars, initialized, transaction, modelPrediction,
                    velocityService, settled, velocityResult, effects,
                    predictionService, jobs >>

\* check(), step 5: savePrediction when storage is enabled; the insert may fail
Save(insertOk) ==
    /\ pc = "save"
    /\ IF StorageManagerPresent /\ cfg.storage.enabled
       THEN IF ~Truthy(transaction.id) \/ ~Truthy(transaction.customerId) \/ ~insertOk
            THEN /\ Rejected("StorageError")
                 /\ UNCHANGED effects
            ELSE /\ effects' = [effects EXCEPT !.saved = TRUE]
                 /\ pc' = "done"
                 /\ UNCHANGED << result, error >>
       ELSE /\ pc' = "done"
            /\ UNCHANGED << result, error, effects >>
    /\ UNCHANGED << instanceVars, initialized, transaction, modelPrediction,
                    velocityService, settled, velocityResult, predictionService, jobs >>

\* the caller has the result or the error; the instance is ready for the next call
Return ==
    /\ pc \in { "done", "rejected" }
    /\ pc' = "idle"
    /\ transaction' = IdleTransaction
    /\ modelPrediction' = None
    /\ settled' = << >>
    /\ velocityResult' = None
    /\ result' = None
    /\ error' = "none"
    /\ effects' = NoEffects
    /\ UNCHANGED << instanceVars, initialized, velocityService, predictionService, jobs >>

\* PredictionService.dispose
PredictionService_dispose(ps) ==
    [ps EXCEPT !.modelManager = FALSE, !.initialized = FALSE]

\* StorageManager.close: stops the cron task this.cleanupJob refers to
StorageManager_close(j) ==
    IF j.cleanupJob THEN [j EXCEPT !.cleanupJob = FALSE, !.cleanup = @ - 1] ELSE j

\* close(), called between two check() calls
Close ==
    /\ pc = "idle"
    /\ predictionService' = PredictionService_dispose(predictionService)
    /\ jobs' = IF StorageManagerPresent THEN StorageManager_close(jobs) ELSE jobs
    /\ initialized' = FALSE
    /\ UNCHANGED << instanceVars, pc, transaction, modelPrediction, velocityService,
                    settled, velocityResult, result, error, effects >>

\* reloadModelAfterRetraining, first half of PredictionService.reload, run by
\* retrain() or by the scheduled retraining job: the current model is disposed
\* and the new path taken; the load is awaited
ReloadStart ==
    /\ pc # "configError"
    /\ gen = "velocity"
    /\ cfg.retraining.enabled /\ StorageManagerPresent /\ cfg.storage.enabled
    /\ ~predictionService.reloading
    /\ predictionService' =
          [PredictionService_dispose(predictionService)
             EXCEPT !.modelPath = "v2", !.reloading = TRUE]
    /\ UNCHANGED << instanceVars, initialized, pc, transaction, modelPrediction,
                    velocityService, settled, velocityResult, result, error,
                    effects, jobs >>

\* second half of PredictionService.reload: initialize() loads the new model,
\* or fails to (the error is logged and swallowed)
ReloadFinish(loads) ==
    /\ predictionService.reloading
    /\ predictionService' =
          [PredictionService_initialize(predictionService, loads)
             EXCEPT !.reloading = FALSE]
    /\ UNCHANGED << instanceVars, initialized, pc, transaction, modelPrediction,
                    velocityService, settled, velocityResult, result, error,
                    effects, jobs >>

InitOutcomes == { "ok", "storageFails", "modelFails" }

\* the transactions a caller hands to check(): instances with retraining are
\* called with two transactions only
CallerTransactions ==
    IF gen = "optional" THEN OptionalTransactions
    ELSE IF cfg.retraining.enabled THEN LifecycleTransactions
    ELSE Transactions \cup WalletTransactions

\* a caller calls check() on an idle instance
CheckCall ==
    /\ pc = "idle"
    /\ \E t \in CallerTransactions, o \in InitOutcomes : CheckStart(t, o)

\* the scaler and the model answer the prediction service
PredictStep ==
    /\ pc = "predict" /\ gen = "velocity"
    /\ \E scalerOk \in BOOLEAN, out \in ModelOutputs : Predict(scalerOk, out)

PredictOptionalStep ==
    /\ pc = "predict" /\ gen = "optional"
    /\ \E scalerOk \in BOOLEAN, out \in ModelOutputs : PredictOptional(scalerOk, out)

\* the store answers, or fails, the queries of the velocity checks
VelocityStep ==
    /\ pc = "velocity"
    /\ \E h \in Histories, broken \in BrokenSets : Velocity(h, broken)

\* the store takes, or refuses, the prediction
SaveStep ==
    /\ pc = "save"
    /\ \E insertOk \in BOOLEAN : Save(insertOk)

\* the new model loads or does not
ReloadFinishStep ==
    /\ predictionService.reloading
    /\ \E loads \in BOOLEAN : ReloadFinish(loads)

Next ==
    \/ CheckCall
    \/ PredictStep
    \/ PredictOptionalStep
    \/ VelocityStep
    \/ Build
    \/ SaveStep
    \/ Return
    \/ Close
    \/ ReloadStart
    \/ ReloadFinishStep

Spec == Init /\ [][Next]_vars

-----------------------------------------------------------------------------
(* The pure functions on inputs of their own: the decision policy on every
   threshold pair (a review threshold of 0 included, which no configuration
   file can produce) and the aggregator on every list of check results *)

GridStep == 10

\* scores and thresholds in [0,1]
ScoreGrid == { i * GridStep : i \in 0..(One \div GridStep) } \cup { One }

ThresholdPairs ==
    { [review |-> a, reject |-> b] : a \in ScoreGrid, b \in ScoreGrid } 

ValidThresholdPairs == { th \in ThresholdPairs : th.review < th.reject }

MaxChecks == 3

AdjustmentGrid == { 0, 20, 40 }

\* what a velocity check returns: triggered with one reason iff its score is positive
CheckResults ==
    { [type |-> ty, score |-> sc, triggered |-> sc > 0,
       reasons |-> IF sc > 0 THEN << Reason(ty, sc, 10, None) >> ELSE << >>] :
         ty \in CheckTypes, sc \in AdjustmentGrid }

RECURSIVE SeqsUpTo(_, _)
SeqsUpTo(S, n) ==
    IF n = 0 THEN { << >> }
    ELSE LET shorter == SeqsUpTo(S, n - 1)
         IN shorter \cup { Append(q, x) : q \in { r \in shorter : Len(r) = n - 1 }, x \in S }

PfIdle == [fn |-> "idle"]

InitPure ==
    /\ gen = "none"
    /\ userConfig = UserConfig(<< None, None >>, << None, None >>, None, None, DefaultChecks)
    /\ config = None
    /\ psThresholds = None
    /\ initialized = FALSE
    /\ velocityService = FALSE
    /\ pc = "pure"
    /\ transaction = IdleTransaction
    /\ modelPrediction = None
    /\ settled = << >>
    /\ velocityResult = None
    /\ result = None
    /\ error = "none"
    /\ effects = NoEffects
    /\ predictionService = NewPredictionService
    /\ jobs = NoJobs
    /\ pf = PfIdle

\* both decision policies applied to one score under one threshold pair
ApplyPolicy(score, thresholds) ==
    /\ pf = PfIdle
    /\ pf' = LET self == [reviewThreshold |-> thresholds.review,
                          rejectThreshold |-> thresholds.reject]
             IN [fn |-> "policy", score |-> score, thresholds |-> thresholds,
                 risk |-> determineRiskLevel(score, thresholds),
                 action |-> determineAction(score, thresholds),
                 builderRisk |-> ResultBuilder_determineRiskLevel(self, score),
                 builderAction |-> ResultBuilder_determineAction(self, score)]
    /\ UNCHANGED pipelineVars

ApplyAggregate(results) ==
    /\ pf = PfIdle
    /\ pf' = [fn |-> "aggregate", input |-> results, output |-> aggregate(results)]
    /\ UNCHANGED pipelineVars

MaxColumns == 2

\* feature vectors: the amount and the hour of the transaction
FeatureVectors == { [amt |-> Num(a), hour |-> Num(1)] : a \in { 0, 3 } }

\* the scaler's feature_columns; "lat" is not a feature
FeatureColumns == { << "amt" >>, << "amt", "hour" >>, << "amt", "lat" >> }

\* the scaler's mean and std arrays: numbers, or not a number
ScalerMeans == SeqsUpTo({ Num(0), Num(1), [k |-> "nan", v |-> 0] }, MaxColumns)

ScalerStds == SeqsUpTo({ Num(0), Num(2), Num(0 - 1) }, MaxColumns)

\* ModelManager.predict up to the standardized vector
ApplyStandardize(features, featureColumns, mean, std) ==
    /\ pf = PfIdle
    /\ pf' = LET featureArray == featureVectorToArray(features, featureColumns)
             IN [fn |-> "standardize", columns |-> featureColumns,
                 features |-> featureArray, mean |-> mean, std |-> std,
                 output |-> IF featureArray = None THEN None
                            ELSE standardizeFeatures(featureArray[1], mean, std)]
    /\ UNCHANGED pipelineVars

MaxWindows == 2

\* frequency windows: the default 10-minute window, a window that allows no
\* transaction at all, the default hourly window, and a window with no limit
\* of its own
FrequencyWindowChoices ==
    { Window(10, Some(5), 20), Window(60, Some(0), 30), Window(60, Some(10), 30),
      Window(1440, None, 40), Window(10, Some(5), 0) }

\* the store's counts for the customer and for the device and address
FrequencyHistories ==
    { [count |-> [customer_id |-> Flat(f[1]), device_id |-> Flat(f[2]),
                  ip_address |-> Flat(f[2])]] :
         f \in { << 3, 0 >>, << 7, 0 >>, << 7, 11 >>, << 3, 11 >>, << 51, 0 >> } }

\* transactions with no identifier, a customer, and a customer with device
\* and address
FrequencyTransactions ==
    { Transaction(Num(100), "valid", Some("shopping_net"), s) :
        s \in { [id |-> Some("tx1"), customerId |-> None, deviceId |-> None,
                 ipAddress |-> None],
                [id |-> Some("tx1"), customerId |-> Some("c1"), deviceId |-> None,
                 ipAddress |-> None],
                [id |-> Some("tx1"), customerId |-> Some("c1"), deviceId |-> Some("d1"),
                 ipAddress |-> Some("8.8.8.8")] } }

ApplyFrequency(windows, t, h) ==
    /\ pf = PfIdle
    /\ pf' = LET checkConfig == [enabled |-> TRUE, time_windows |-> windows]
             IN [fn |-> "frequency", windows |-> windows, transaction |-> t,
                 history |-> h, output |-> FrequencyCheck_check(checkConfig, t, h),
                 queries |-> FrequencyCheck_queries(checkConfig, t)]
    /\ UNCHANGED pipelineVars

\* amount windows: the default hourly window, a window with no limit of its
\* own, and a window that allows no spending at all
AmountWindowChoices ==
    { Window(60, Some(5000), 20), Window(60, None, 30), Window(1440, Some(0), 50) }

\* spike detection: not configured, the defaults, a higher adjustment with
\* the multiplier left out
SpikeChoices ==
    { None,
      Some([enabled |-> TRUE, lookback_days |-> Some(30), multiplier |-> Some(5),
            score_adjustment |-> Some(40)]),
      Some([enabled |-> TRUE, lookback_days |-> None, multiplier |-> None,
            score_adjustment |-> Some(10)]) }

\* the store's answers to the amount check: the sum spent, the customer's
\* age, the average daily spending and today's spending
AmountHistories ==
    { [sum |-> Flat(s), ageDays |-> age, avgDaily |-> avg, today |-> today] :
        s \in { 100, 5000, 5001 }, age \in { 27, 28 }, avg \in { 0, 10 },
        today \in { 49, 50 } }

\* a transaction without and with a customer
CustomerTransactions ==
    { Transaction(Num(100), "valid", Some("shopping_net"),
                  [id |-> Some("tx1"), customerId |-> c, deviceId |-> None,
                   ipAddress |-> None]) : c \in { None, Some("c1") } }

ApplyAmount(windows, spike, t, h) ==
    /\ pf = PfIdle
    /\ pf' = LET checkConfig == [enabled |-> TRUE, time_windows |-> windows,
                                 spike_detection |-> spike]
             IN [fn |-> "amount", windows |-> windows, spike |-> spike,
                 transaction |-> t, history |-> h,
                 output |-> AmountCheck_check(checkConfig, t, h),
                 queries |-> AmountCheck_queries(checkConfig, t, h)]
    /\ UNCHANGED pipelineVars

\* failed-transaction windows: the default 10-minute window, a window with no
\* limit of its own, and a window that allows no failure at all
FailedWindowChoices ==
    { Window(10, Some(3), 30), Window(60, None, 40), Window(60, Some(0), 20) }

FailedHistories == { [failed |-> Flat(n)] : n \in { 0, 1, 4, 6 } }

ApplyFailed(windows, t, h) ==
    /\ pf = PfIdle
    /\ pf' = LET checkConfig == [enabled |-> TRUE, time_windows |-> windows]
             IN [fn |-> "failed", windows |-> windows, transaction |-> t,
                 history |-> h, output |-> FailedTransactionCheck_check(checkConfig, t, h),
                 queries |-> FailedTransactionCheck_queries(checkConfig, t)]
    /\ UNCHANGED pipelineVars

ResetPure ==
    /\ pf # PfIdle
    /\ pf' = PfIdle
    /\ UNCHANGED pipelineVars

NextPure ==
    \/ \E score \in ScoreGrid, thresholds \in ValidThresholdPairs :
          ApplyPolicy(score, thresholds)
    \/ \E results \in SeqsUpTo(CheckResults, MaxChecks) : ApplyAggregate(results)
    \/ \E features \in FeatureVectors, featureColumns \in FeatureColumns,
          mean \in ScalerMeans, std \in ScalerStds :
          ApplyStandardize(features, featureColumns, mean, std)
    \/ \E windows \in SeqsUpTo(FrequencyWindowChoices, MaxWindows),
          t \in FrequencyTransactions, h \in FrequencyHistories :
          ApplyFrequency(windows, t, h)
    \/ \E windows \in SeqsUpTo(AmountWindowChoices, MaxWindows), spike \in SpikeChoices,
          t \in CustomerTransactions, h \in AmountHistories :
          ApplyAmount(windows, spike, t, h)
    \/ \E windows \in SeqsUpTo(FailedWindowChoices, MaxWindows),
          t \in CustomerTransactions, h \in FailedHistories :
          ApplyFailed(windows, t, h)
    \/ ResetPure

SpecPure == InitPure /\ [][NextPure]_vars

-----------------------------------------------------------------------------
(* Claims *)

TierOf(score, thresholds) ==
    IF score < thresholds.review THEN << "low", "accept" >>
    ELSE IF score < thresholds.reject THEN << "medium", "review" >>
    ELSE << "high", "reject" >>

IsMaxOf(m, results) ==
    /\ \E i \in 1..Len(results) : results[i].score = m
    /\ \A i \in 1..Len(results) : results[i].score <= m

\* C7: aggregate of the empty list has score 0 and no reasons; aggregate of a
\* non-empty list has the maximum of the input scores as its score, also when
\* every input is 0 and when every input is triggered; the checks field is the
\* input list.
C7_AggregateIsMax ==
    pf.fn = "aggregate" =>
        /\ pf.input = << >> => pf.output.score = 0 /\ pf.output.reasons = << >>
        /\ pf.input # << >> => IsMaxOf(pf.output.score, pf.input)
        /\ pf.output.checks = pf.input

\* three triggered checks with different scores: the score is the largest,
\* not the sum
C7_Witness ==
    /\ pf.fn = "aggregate"
    /\ Len(pf.input) = 3
    /\ \A i \in 1..3 : pf.input[i].triggered
    /\ pf.input[1].score = 20 /\ pf.input[2].score = 40
    /\ pf.output.score = 40

-----------------------------------------------------------------------------
(* Claims about check() *)

\* check() has returned a result to its caller
Returned == pc = "done"

\* the score the velocity aggregation handed to check()
AggregatedVelocityScore == IF velocityResult = None THEN 0 ELSE velocityResult[1].score

\* C2: every result returned by check() and every result of
\* PredictionService.predict carries the tier and the action that the decision
\* policy gives its final score (after fusion, after the wallet, address and
\* device adjustments) under the thresholds in force.
C2_TierFollowsFinalScore ==
    /\ Returned =>
          << result[1].risk, result[1].action >> = TierOf(result[1].score, cfg.thresholds)
    /\ modelPrediction # None =>
          << modelPrediction[1].risk, modelPrediction[1].action >>
             = TierOf(modelPrediction[1].score, psThresholds[1])

\* a model score of 0.4, low under a review threshold of 0.5, raised by a
\* wallet adjustment over the threshold and returned as medium
C2_Witness ==
    /\ Returned
    /\ gen = "optional"
    /\ psThresholds[1].review = 50
    /\ result[1].modelScore = 40
    /\ result[1].score > 50
    /\ result[1].risk = "medium"
    /\ result[1].action = "review"

\* C3: when velocity is disabled, or the aggregated velocity score is 0, the
\* final score of the returned result is the model score, whatever the weights.
C3_NoVelocityKeepsModelScore ==
    (Returned /\ gen = "velocity"
       /\ (~cfg.velocity.enabled \/ AggregatedVelocityScore = 0)) =>
        result[1].score = modelPrediction[1].score

\* the velocity checks ran, none triggered, and weights that do not sum to 1
\* left a model score of 0.7 as it was
C3_Witness ==
    /\ Returned
    /\ cfg.velocity.enabled
    /\ velocityResult # None
    /\ velocityResult[1].score = 0
    /\ userConfig.model_weight = Some(10)
    /\ userConfig.velocity_weight = Some(10)
    /\ modelPrediction[1].score = 70
    /\ result[1].score = 70

\* the weight the configuration gives: the file's value, the default without one
GivenWeight(w, default) == IF w = None THEN default ELSE w[1]

\* C4: with velocity enabled and a positive aggregated velocity score, the
\* final score is modelScore * model_weight + velocityScore * velocity_weight
\* for the weights given in the configuration, a weight of 0 included.
C4_ConfiguredWeights ==
    (Returned /\ gen = "velocity" /\ cfg.velocity.enabled
       /\ AggregatedVelocityScore > 0) =>
        result[1].score * WeightUnit
          = modelPrediction[1].score
              * GivenWeight(userConfig.model_weight, DEFAULT_model_weight)
            + AggregatedVelocityScore
              * GivenWeight(userConfig.velocity_weight, DEFAULT_velocity_weight)

\* C5: the final score of every returned result lies in [0,1].
C5_FinalScoreInRange ==
    Returned => result[1].score >= 0 /\ result[1].score <= One

\* C6: with velocity enabled and a positive aggregated velocity score the
\* final score is at least the model score.
C6_VelocityNeverLowers ==
    (Returned /\ gen = "velocity" /\ cfg.velocity.enabled
       /\ AggregatedVelocityScore > 0) =>
        result[1].score >= modelPrediction[1].score

\* what the enabled checks answer for a history when no query fails
Undisturbed(h) == allSettled(cfg.velocity, transaction, h, {})

\* C8: when the store query of an enabled velocity check rejects, the other
\* enabled checks still complete and contribute their own score and reasons,
\* the failed check stands in the list as score 0, not triggered, no reasons,
\* checkVelocity answers, and check() builds its result (only the persistence
\* step that follows can still reject the call).
C8_CheckFailureContained ==
    (gen = "velocity" /\ velocityResult # None) =>
        LET checks == velocityResult[1].checks
        IN /\ Len(checks) = Len(settled)
           /\ \A i \in 1..Len(settled) :
                 /\ settled[i].status = "rejected" <=> settled[i].name \in effects.failed
                 /\ settled[i].status = "rejected" =>
                       checks[i] = [type |-> settled[i].name, score |-> 0,
                                    triggered |-> FALSE, reasons |-> << >>]
                 /\ settled[i].status = "fulfilled" => checks[i] = settled[i].value[1]
           /\ \E h \in Histories :
                 \A i \in 1..Len(settled) :
                    settled[i].status = "fulfilled" => settled[i] = Undisturbed(h)[i]
           /\ checks # << >> => IsMaxOf(velocityResult[1].score, checks)
           /\ pc \in { "save", "done" } =>
                 result # None /\ result[1].velocityScore = velocityResult[1].score
           /\ pc = "rejected" => error = "StorageError"

\* one check's query rejected, another check triggered, and the returned
\* result carries the triggered check's score
C8_Witness ==
    /\ Returned
    /\ velocityResult # None
    /\ \E i, j \in 1..Len(settled) :
          /\ settled[i].status = "rejected"
          /\ settled[j].status = "fulfilled"
          /\ settled[j].value[1].score > 0
          /\ result[1].velocityScore = settled[j].value[1].score

\* predict was called and feature extraction, the scaler or the model failed
PredictFailed ==
    /\ effects.env # None
    /\ \/ extractFeatures(transaction) = None
       \/ ~effects.env[1].scalerOk
       \/ effects.env[1].out.k # "num"
       \/ effects.env[1].out.v < 0
       \/ effects.env[1].out.v > One

\* C9: when feature extraction or the predictor fails, check() rejects with
\* that error: no result, no score in its place, no velocity query, nothing
\* persisted.
C9_PredictFailurePropagates ==
    PredictFailed =>
        /\ pc = "rejected"
        /\ error = "ModelError"
        /\ result = None
        /\ modelPrediction = None
        /\ velocityResult = None
        /\ effects.queried = {}
        /\ ~effects.saved

\* the model answered NaN on an instance with storage and velocity enabled
C9_Witness ==
    /\ pc = "rejected"
    /\ error = "ModelError"
    /\ effects.inferred
    /\ effects.env[1].out.k = "nan"
    /\ velocityService
    /\ cfg.storage.enabled

\* the call in progress, or just settled, is for this transaction
InCall == pc \in { "predict", "velocity", "build", "save", "done", "rejected" }

NegativeOrNaN(a) == AmountLt0(a) \/ a.k = "nan"

\* amount >= 0 as JavaScript compares: every number from 0 up, Infinity included
AtLeast0(a) == (a.k = "num" /\ a.v >= 0) \/ a.k = "inf"

\* C10 as stated: a negative or NaN amount always fails with ValidationError
\* without the predictor being invoked, and every amount >= 0 with a valid
\* timestamp and category passes validation and feature extraction.
C10_AsStated ==
    InCall =>
        /\ NegativeOrNaN(transaction.amount) =>
              pc = "rejected" /\ error = "ValidationError" /\ effects.env = None
        /\ (AtLeast0(transaction.amount) /\ validateTimestamp(transaction.timestamp)
              /\ validateCategory(transaction.category)) =>
              /\ ~(pc = "rejected" /\ error = "ValidationError")
              /\ extractFeatures(transaction) # None

\* the optional fields are absent or pass their validation, and with storage
\* enabled the two identifiers are there
OptionalFieldsValid(t) ==
    /\ t.id # None => validateTransactionId(t.id[1])
    /\ t.customerId # None => validateCustomerId(t.customerId[1])
    /\ t.walletBalance # None => validateWalletBalance(t.walletBalance[1])
    /\ t.ipAddress # None => validateIpAddress(t.ipAddress[1])
    /\ t.deviceId # None => validateDeviceId(t.deviceId[1])
    /\ cfg.storage.enabled => Truthy(t.id) /\ Truthy(t.customerId)

\* C10, amended: a transaction whose amount is negative, NaN or infinite is
\* rejected without the predictor being invoked, with ValidationError once the
\* instance is initialized (with InitializationError when initialization
\* fails first); every finite amount >= 0 with a valid timestamp and category,
\* valid or absent optional fields and, with storage enabled, an id and a
\* customer id, passes validation and feature extraction.
C10_AmountValidation ==
    InCall =>
        /\ (NegativeOrNaN(transaction.amount) \/ ~IsFinite(transaction.amount)) =>
              /\ pc = "rejected"
              /\ error = IF initialized THEN "ValidationError" ELSE "InitializationError"
              /\ effects.env = None
              /\ ~effects.inferred
        /\ (transaction.amount.k = "num" /\ transaction.amount.v >= 0
              /\ validateTimestamp(transaction.timestamp)
              /\ validateCategory(transaction.category)
              /\ OptionalFieldsValid(transaction)) =>
              /\ ~(pc = "rejected" /\ error = "ValidationError")
              /\ extractFeatures(transaction) # None

\* a NaN amount rejected with ValidationError on an initialized instance,
\* the predictor not invoked
C10_Witness ==
    /\ pc = "rejected"
    /\ error = "ValidationError"
    /\ initialized
    /\ transaction.amount.k = "nan"
    /\ ~effects.inferred

(* C11: order of the steps of one check() *)

\* the velocity checks the configuration enables
EnabledChecks(vcfg) ==
    { ty \in CheckTypes :
        CASE ty = "frequency" -> vcfg.frequency.enabled
          [] ty = "amount" -> vcfg.amount.enabled
          [] ty = "failed" -> vcfg.failed_transactions.enabled }

\* every enabled velocity check of the call in flight has settled
VelocitySettled ==
    (velocityService /\ cfg.velocity.enabled) =>
        /\ velocityResult # None
        /\ { settled[i].name : i \in 1..Len(settled) } = EnabledChecks(cfg.velocity)
        /\ \A i \in 1..Len(settled) : settled[i].status \in { "fulfilled", "rejected" }

\* C11: within one check(), a velocity store query is issued only once the
\* model score of that call is there, and the returned result (tier and action)
\* is built only after every enabled velocity check has settled, from the fused
\* score of the model score and the aggregated velocity score.
C11_ModelThenVelocityThenTier ==
    [][ /\ (effects'.queried # {} /\ effects.queried = {}) =>
              (pc = "velocity" /\ modelPrediction # None /\ effects.inferred)
        /\ (gen = "velocity" /\ result = None /\ result' # None) =>
              /\ pc = "build"
              /\ VelocitySettled
              /\ result'[1].score =
                    combineScores(modelPrediction[1].score, AggregatedVelocityScore, cfg)
              /\ << result'[1].risk, result'[1].action >>
                    = TierOf(result'[1].score, cfg.thresholds) ]_vars

\* two checks queried the store, both settled, and the result was built with
\* the velocity score
C11_Witness ==
    /\ gen = "velocity"
    /\ pc = "save"
    /\ Cardinality(effects.queried) >= 2
    /\ Cardinality(EnabledChecks(cfg.velocity)) = 3
    /\ result # None
    /\ result[1].velocityScore > 0

(* C12: check() concurrent with a model reload *)

\* C12: a check() that runs while the model is being reloaded does not observe
\* the reload: it is never rejected because of it (a ModelError comes from
\* feature extraction, the scaler or the model of that call only) and never
\* runs against a disposed or partially loaded model.
C12_ReloadNotObserved ==
    /\ (pc = "rejected" /\ error = "ModelError") => PredictFailed
    /\ (initialized /\ pc \in { "predict", "velocity", "build" }) =>
          (predictionService.initialized /\ predictionService.modelManager)

(* C13, C14: the thresholds of the configuration file *)

\* the file gives both thresholds
ThresholdsGiven == userConfig.review # None /\ userConfig.reject # None

\* the thresholds as the file gives them
GivenThresholds == [review |-> userConfig.review[1], reject |-> userConfig.reject[1]]

\* C13: for every configured pair with 0 <= review < reject <= 1, review = 0
\* included, the configuration loads and check() decides tier and action with
\* exactly the configured values.
C13_ConfiguredThresholdsInForce ==
    (gen = "velocity" /\ ThresholdsGiven
       /\ 0 <= GivenThresholds.review
       /\ GivenThresholds.review < GivenThresholds.reject
       /\ GivenThresholds.reject <= One) =>
        /\ config # None
        /\ cfg.thresholds = GivenThresholds
        /\ Returned =>
              << result[1].risk, result[1].action >>
                 = TierOf(result[1].score, GivenThresholds)

\* C14: a configuration whose review threshold is not below its reject
\* threshold, both in [0, 1] and reject = 0 included, fails to load with
\* ConfigurationError; no check() runs on it.
C14_InvertedThresholdsRejected ==
    (gen = "velocity" /\ ThresholdsGiven
       /\ 0 <= GivenThresholds.reject /\ GivenThresholds.review <= One
       /\ GivenThresholds.review >= GivenThresholds.reject) =>
        /\ config = None
        /\ pc = "configError"

(* C15: a model that fails to load *)

\* C15: when loading the model or its metadata fails during initialization,
\* check() rejects with InitializationError and the instance stays
\* uninitialized; a check() gets past initialization, and returns a result,
\* only on an instance whose initialization has fully succeeded.
C15_FailedLoadLeavesUninitialized ==
    /\ effects.initFailure = "model" =>
          /\ pc = "rejected"
          /\ error = "InitializationError"
          /\ result = None
          /\ ~initialized
          /\ ~effects.inferred
    /\ pc \in { "predict", "velocity", "build", "save", "done" } =>
          (initialized /\ effects.initFailure = "none")

\* a first check() was rejected because the model did not load, and a later
\* check() initialized the instance and returned a result
C15_Witness ==
    /\ Returned
    /\ initialized
    /\ result # None
    /\ jobs.cleanup = 2

(* C16: close() and the scheduled jobs *)

\* C16: once close() has resolved no scheduled job is left running, neither
\* the cleanup job nor the retraining job, whatever sequence of check(),
\* retrain() and close() went before.
C16_CloseStopsJobs ==
    [][ Close => (jobs'.cleanup = 0 /\ jobs'.retraining = 0) ]_vars

(* C17: the device identifier *)

DeviceReason == ModelReason("Missing or empty device identifier")

\* the device identifier of the transaction in flight is missing or empty
DeviceIdMissingOrEmpty ==
    transaction.deviceId = None \/ Trim(transaction.deviceId[1]) = ""

HasReason(res, reason) == \E i \in 1..Len(res.reasons) : res.reasons[i] = reason

\* C17: for a transaction whose device identifier is missing or empty, check()
\* returns a result whose score carries the device delta of 0.05 (with no
\* wallet balance and no IP address given: the model score plus 0.05, clamped)
\* and whose reasons hold the device reason.
C17_MissingDeviceIdAdjusts ==
    (InCall /\ DeviceIdMissingOrEmpty) =>
        /\ pc = "rejected" => error # "ValidationError"
        /\ Returned =>
              /\ HasReason(result[1], DeviceReason)
              /\ (transaction.walletBalance = None /\ transaction.ipAddress = None) =>
                    result[1].score = Clamp01(result[1].modelScore + 5)

(* C18: the wallet balance *)

\* the sum of the wallet deltas for an amount and a balance: 0.15 when the
\* amount exceeds the balance; 0.10 when it is at least 95% of the balance,
\* otherwise 0.05 when at least 80%; 0.10 for a positive amount on a zero balance
WalletDeltas(amount, balance) ==
    (IF amount > balance THEN 15 ELSE 0)
    + (IF PercentageAtLeast(amount, balance, 95) THEN 10
       ELSE IF PercentageAtLeast(amount, balance, 80) THEN 5 ELSE 0)
    + (IF balance = 0 /\ amount > 0 THEN 10 ELSE 0)

\* C18: for a transaction with a wallet balance (no IP address, no device
\* identifier, no velocity score) the score of the returned result is the
\* model score plus the sum of the wallet deltas, clamped to [0, 1]; an amount
\* above the balance adds the exceeds-balance reason; and a score that reaches
\* the reject threshold comes with action reject in the same result.
C18_WalletDeltasApplied ==
    (Returned /\ transaction.walletBalance # None /\ transaction.ipAddress = None
       /\ transaction.deviceId = None /\ AggregatedVelocityScore = 0) =>
        LET amount == transaction.amount.v
            balance == transaction.walletBalance[1].v
            thresholds == IF gen = "optional" THEN psThresholds[1] ELSE cfg.thresholds
        IN /\ result[1].score = Clamp01(result[1].modelScore + WalletDeltas(amount, balance))
           /\ amount > balance =>
                 HasReason(result[1],
                           ModelReason("Transaction amount exceeds wallet balance"))
           /\ result[1].score >= thresholds.reject => result[1].action = "reject"

(* C19: standardization *)

\* C19: standardizeFeatures never returns a vector with a non-finite value.
\* When the feature, mean and scale arrays differ in length, or some
\* (x[i] - mean[i]) / scale[i] is not finite (a scale of 0, a mean that is not
\* a number), it throws ModelError; otherwise the output has the length of the
\* feature-column manifest and element i is (x[i] - mean[i]) / scale[i].
C19_StandardizedFinite ==
    (pf.fn = "standardize" /\ pf.features # None) =>
        LET x == pf.features[1]
            mismatch == Len(x) # Len(pf.mean) \/ Len(x) # Len(pf.std)
            nonFinite == \E i \in 1..Len(x) :
                            \/ pf.mean[i].k # "num"
                            \/ pf.std[i].k # "num"
                            \/ pf.std[i].v = 0
        IN /\ pf.output # None =>
                 \A i \in 1..Len(pf.output[1]) : pf.output[1][i].k = "num"
           /\ mismatch => pf.output = None
           /\ (~mismatch /\ nonFinite) => pf.output = None
           /\ (~mismatch /\ ~nonFinite) =>
                 /\ pf.output # None
                 /\ Len(pf.output[1]) = Len(pf.columns)
                 /\ \A i \in 1..Len(x) :
                       /\ pf.output[1][i].d # 0
                       /\ pf.output[1][i].n * pf.std[i].v
                             = (x[i].v - pf.mean[i].v) * pf.output[1][i].d

\* a vector of two features standardized with a negative scale: (3 - 1) / -1
C19_Witness ==
    /\ pf.fn = "standardize"
    /\ pf.output # None
    /\ Len(pf.output[1]) = 2
    /\ pf.features[1][1] = Num(3)
    /\ pf.mean[1] = Num(1)
    /\ pf.std[1] = Num(0 - 1)
    /\ pf.output[1][1].n = 0 - 2 * pf.output[1][1].d

(* C20: the frequency check *)

\* the store field of each dimension of the frequency check
FrequencyDimensions == { "customer_id", "device_id", "ip_address" }

\* the dimension's identifier is present in the transaction
DimensionPresent(t, field) ==
    CASE field = "customer_id" -> Truthy(t.customerId)
      [] field = "device_id" -> Truthy(t.deviceId)
      [] field = "ip_address" -> Truthy(t.ipAddress)

\* the (window, dimension) pairs whose count is strictly greater than the
\* window's own limit (50 when the window gives none)
ExceededPairs(windows, t, h) ==
    { p \in (1..Len(windows)) \X FrequencyDimensions :
        /\ DimensionPresent(t, p[2])
        /\ countTransactions(h, p[2], windows[p[1]].period_minutes)
              > Nullish(windows[p[1]].limit, 50) }

\* C20: FrequencyCheck.check returns as score the maximum, over the configured
\* windows, of the score_adjustment of the windows in which a present
\* dimension has a count strictly greater than the window limit, and 0 when
\* there is none; one reason per exceeded dimension per window; for the single
\* window (10 min, max 5, adjustment 0.2) a customer count of 7 gives
\* triggered with score 0.2 and a count of 3 gives not triggered with score 0.
C20_FrequencyScoreIsMaxOverWindows ==
    pf.fn = "frequency" =>
        LET exceeded == ExceededPairs(pf.windows, pf.transaction, pf.history)
            adjustments == { pf.windows[p[1]].score_adjustment : p \in exceeded }
        IN /\ exceeded = {} => (pf.output.score = 0 /\ ~pf.output.triggered)
           /\ exceeded # {} =>
                 /\ pf.output.score \in adjustments
                 /\ \A a \in adjustments : a <= pf.output.score
                 /\ pf.output.triggered
           /\ Len(pf.output.reasons) = Cardinality(exceeded)

(* C21: the ceiling of a window *)

\* the ceiling of a window as configured: its own limit when it gives one,
\* the default when it gives none
Ceiling(window, default) == Nullish(window.limit, default)

\* the reasons of one kind in a check's result
ReasonsOfKind(res, kind) == { i \in 1..Len(res.reasons) : res.reasons[i][1] = kind }

\* C21: in the frequency, amount and failed-transaction checks a window is
\* compared against its own configured limit whenever it gives one, and
\* against the default (50 transactions, 5000 spent, 5 failures) exactly when
\* it gives none: the windows reported are those whose count or sum is above
\* that ceiling.
C21_CeilingIsWindowLimit ==
    /\ pf.fn = "frequency" =>
          Len(pf.output.reasons)
             = Cardinality(ExceededPairs(pf.windows, pf.transaction, pf.history))
    /\ (pf.fn = "amount" /\ Truthy(pf.transaction.customerId)) =>
          Cardinality(ReasonsOfKind(pf.output, "Spent"))
             = Cardinality({ i \in 1..Len(pf.windows) :
                               sumAmounts(pf.history, pf.windows[i].period_minutes)
                                  > Ceiling(pf.windows[i], 5000) })
    /\ (pf.fn = "failed" /\ Truthy(pf.transaction.customerId)) =>
          Len(pf.output.reasons)
             = Cardinality({ i \in 1..Len(pf.windows) :
                               countFailedTransactions(pf.history,
                                                       pf.windows[i].period_minutes)
                                  > Ceiling(pf.windows[i], 5) })

(* C22: the spending spike *)

\* the adjustments of the amount windows whose sum is above the ceiling
TriggeredAmountAdjustments(windows, h) ==
    { windows[i].score_adjustment :
        i \in { j \in 1..Len(windows) :
                  sumAmounts(h, windows[j].period_minutes) > Ceiling(windows[j], 5000) } }

\* today's spending divided by the average daily spending reaches the
\* configured multiplier (5 when none is configured)
SpikeReached(spike, h) ==
    /\ getAverageDailySpending(h, 0) > 0
    /\ getTodaySpending(h) >= Nullish(spike.multiplier, 5) * getAverageDailySpending(h, 0)

CheckApplied == pf.fn \in CheckTypes

\* the transaction lacks the identifiers the applied check needs: the
\* customer for the amount and failed-transaction checks, all of customer,
\* device and address for the frequency check
LacksSubject ==
    IF pf.fn = "frequency"
    THEN \A field \in FrequencyDimensions : ~DimensionPresent(pf.transaction, field)
    ELSE ~Truthy(pf.transaction.customerId)

\* the statement as given: a check without its subject identifiers, or with
\* no time windows configured, returns score 0, not triggered, no reasons
C23_AsStated ==
    (CheckApplied /\ (LacksSubject \/ Len(pf.windows) = 0)) =>
        pf.output = ZeroResult(pf.fn)

\* C23: each of the three velocity checks returns score 0, not triggered, no
\* reasons, and issues no store query (so that nothing can throw) whenever the
\* transaction lacks the subject identifiers the check needs, and whenever the
\* check has no time windows configured, except that the amount check with no
\* time windows still runs an enabled spike detection, whose queries it
\* issues and whose score and reason it returns.
C23_ZeroWithoutSubjectOrWindows ==
    CheckApplied =>
        LET spikeOn == pf.fn = "amount" /\ pf.spike # None /\ pf.spike[1].enabled
        IN /\ (LacksSubject \/ (Len(pf.windows) = 0 /\ ~spikeOn)) =>
                 /\ pf.output = ZeroResult(pf.fn)
                 /\ pf.queries = { }
           /\ (~LacksSubject /\ Len(pf.windows) = 0 /\ spikeOn) =>
                 /\ "getCustomerAgeDays" \in pf.queries
                 /\ "sumAmounts" \notin pf.queries
                 /\ pf.output.triggered <=>
                       (getCustomerAgeDays(pf.history) >= 28
                          /\ SpikeReached(pf.spike[1], pf.history))
                 /\ Len(pf.output.reasons) = IF pf.output.triggered THEN 1 ELSE 0

\* the amount check with no time windows, applied for an old enough customer
\* whose spending today is five times the average: triggered by the spike
C23_Witness ==
    /\ pf.fn = "amount"
    /\ Len(pf.windows) = 0
    /\ Truthy(pf.transaction.customerId)
    /\ pf.output.triggered
    /\ pf.output.score = 40

(* C24: disabled checks *)

\* C24: a velocity check that the configuration disables issues no store
\* query and has no entry in the aggregated result; with all three checks
\* disabled checkVelocity returns score 0, no reasons and no checks, and the
\* store is not touched.
C24_DisabledChecksContributeNothing ==
    (gen = "velocity" /\ velocityResult # None) =>
        LET enabled == EnabledChecks(cfg.velocity)
            checks == velocityResult[1].checks
        IN /\ effects.queried \subseteq enabled
           /\ { settled[i].name : i \in 1..Len(settled) } = enabled
           /\ { checks[i].type : i \in 1..Len(checks) } = enabled
           /\ Len(checks) = Cardinality(enabled)
           /\ enabled = { } =>
                 /\ velocityResult[1] = [score |-> 0, reasons |-> << >>, checks |-> << >>]
                 /\ effects.queried = { }

\* only the frequency check is enabled: it alone queried the store and it
\* alone stands in the result, triggered
C24_Witness ==
    /\ gen = "velocity"
    /\ velocityResult # None
    /\ EnabledChecks(cfg.velocity) = { "frequency" }
    /\ effects.queried = { "frequency" }
    /\ Len(velocityResult[1].checks) = 1
    /\ velocityResult[1].score > 0

(* C25: a reload that fails *)

\* C25: when reloading the model after a retraining fails, the instance goes
\* on with the model it had: once the reload has settled, successfully or
\* not, the prediction service of an initialized instance is initialized and
\* holds a model, so that later check() calls return results.
C25_FailedReloadKeepsModel ==
    (initialized /\ ~predictionService.reloading) =>
        (predictionService.initialized /\ predictionService.modelManager)

(* C26: initialization side effects *)

\* C26: whatever the check() calls on an instance, and across repeated
\* initialization attempts after a failed one, at most one cleanup job and at
\* most one retraining job are scheduled.
C26_InitializationOnce ==
    /\ jobs.cleanup <= 1
    /\ jobs.retraining <= 1

-----------------------------------------------------------------------------
(* Concurrent check() calls of one customer against the store *)

MaxCalls == 4

\* the calls in flight
Calls == 1..MaxCalls

\* the limit of the one frequency window configured
CallLimits == { 1, 2 }

\* the transaction every call checks: customer c1
CallTransaction ==
    Transaction(Num(100), "valid", Some("shopping_net"),
                [id |-> Some("tx1"), customerId |-> Some("c1"), deviceId |-> None,
                 ipAddress |-> None])

\* the frequency configuration: one 10-minute window
CallFrequency(limit) == [enabled |-> TRUE, time_windows |-> << Window(10, Some(limit), 20) >>]

\* what the store answers once n predictions of the customer are persisted,
\* all inside the window
PersistedHistory(n) ==
    [count |-> [customer_id |-> Flat(n), device_id |-> Flat(0), ip_address |-> Flat(0)]]

InitConcurrent ==
    /\ gen = "none"
    /\ userConfig = UserConfig(<< None, None >>, << None, None >>, Some(TRUE), Some(TRUE),
                               DefaultChecks)
    /\ config = None
    /\ psThresholds = None
    /\ initialized = FALSE
    /\ velocityService = FALSE
    /\ pc = "concurrent"
    /\ transaction = IdleTransaction
    /\ modelPrediction = None
    /\ settled = << >>
    /\ velocityResult = None
    /\ result = None
    /\ error = "none"
    /\ effects = NoEffects
    /\ predictionService = NewPredictionService
    /\ jobs = NoJobs
    /\ \E limit \in CallLimits :
          pf = [fn |-> "concurrent", limit |-> limit, persisted |-> 0,
                calls |-> [c \in Calls |-> [pc |-> "idle", triggered |-> FALSE]]]

\* check() is called and runs up to the model prediction
CallBegin(c) ==
    /\ pf.calls[c].pc = "idle"
    /\ pf' = [pf EXCEPT !.calls[c].pc = "velocity"]
    /\ UNCHANGED pipelineVars

\* the call's frequency check counts the customer's persisted predictions
CallVelocity(c) ==
    /\ pf.calls[c].pc = "velocity"
    /\ pf' = [pf EXCEPT
                !.calls[c].pc = "save",
                !.calls[c].triggered =
                    FrequencyCheck_check(CallFrequency(pf.limit), CallTransaction,
                                         PersistedHistory(pf.persisted)).triggered]
    /\ UNCHANGED pipelineVars

\* savePrediction inserts the call's prediction and check() returns
CallSave(c) ==
    /\ pf.calls[c].pc = "save"
    /\ pf' = [pf EXCEPT !.calls[c].pc = "done", !.persisted = @ + 1]
    /\ UNCHANGED pipelineVars

NextConcurrent ==
    \/ \E c \in Calls : CallBegin(c)
    \/ \E c \in Calls : CallVelocity(c)
    \/ \E c \in Calls : CallSave(c)

SpecConcurrent == InitConcurrent /\ [][NextConcurrent]_vars

\* C27: with storage and velocity enabled each call's frequency check counts
\* the earlier calls of the customer that are persisted, so that for a window
\* with limit m at most m + 1 of the customer's check() calls inside the
\* window, sequential or concurrent, return with the frequency check
\* untriggered.
C27_AtMostLimitPlusOneUntriggered ==
    pf.fn = "concurrent" =>
        Cardinality({ c \in Calls : pf.calls[c].pc = "done" /\ ~pf.calls[c].triggered })
           <= pf.limit + 1

-----------------------------------------------------------------------------
(* The model registry: registerModelVersion and setActiveModel *)

MaxOperations == 2

\* the version strings the callers use; v1.0.0 is the baseline
Versions == { "v1.0.0", "v1.1.0", "v1.2.0" }

\* a row of model_versions: absent, or present with is_active 0 or 1
BaselineRegistry == [v \in Versions |-> IF v = "v1.0.0" THEN "active" ELSE "absent"]

NoOperation ==
    [name |-> "none", version |-> "v1.0.0", pc |-> "idle", error |-> "none",
     before |-> BaselineRegistry, alone |-> TRUE]

InFlight(op) == op.pc \in { "deactivate", "write" }

InitRegistry ==
    /\ gen = "none"
    /\ userConfig = UserConfig(<< None, None >>, << None, None >>, Some(TRUE), Some(TRUE),
                               DefaultChecks)
    /\ config = None
    /\ psThresholds = None
    /\ initialized = FALSE
    /\ velocityService = FALSE
    /\ pc = "registry"
    /\ transaction = IdleTransaction
    /\ modelPrediction = None
    /\ settled = << >>
    /\ velocityResult = None
    /\ result = None
    /\ error = "none"
    /\ effects = NoEffects
    /\ predictionService = NewPredictionService
    /\ jobs = NoJobs
    /\ pf = [fn |-> "registry", registry |-> BaselineRegistry,
             ops |-> [o \in 1..MaxOperations |-> NoOperation]]

\* a caller invokes registerModelVersion or setActiveModel; the db is open
BeginOperation(o, name, version) ==
    /\ ~InFlight(pf.ops[o])
    /\ pf' = [pf EXCEPT !.ops =
                [p \in 1..MaxOperations |->
                    IF p = o
                       THEN [name |-> name, version |-> version, pc |-> "deactivate",
                             error |-> "none", before |-> pf.registry,
                             alone |-> \A q \in 1..MaxOperations \ { o } :
                                           ~InFlight(pf.ops[q])]
                       ELSE IF InFlight(pf.ops[p]) THEN [pf.ops[p] EXCEPT !.alone = FALSE]
                       ELSE pf.ops[p]]]
    /\ UNCHANGED pipelineVars

\* UPDATE model_versions SET is_active = 0
Deactivate(o) ==
    /\ pf.ops[o].pc = "deactivate"
    /\ pf' = [pf EXCEPT
                !.registry = [v \in Versions |->
                                 IF pf.registry[v] = "active" THEN "inactive"
                                 ELSE pf.registry[v]],
                !.ops[o].pc = "write"]
    /\ UNCHANGED pipelineVars

\* INSERT INTO model_versions (... is_active ...) VALUES (..., 1, ...); the
\* primary key rejects a version that is already registered
RegisterInsert(o) ==
    /\ pf.ops[o].pc = "write"
    /\ pf.ops[o].name = "registerModelVersion"
    /\ IF pf.registry[pf.ops[o].version] = "absent"
          THEN pf' = [pf EXCEPT !.registry[pf.ops[o].version] = "active",
                                !.ops[o].pc = "done"]
          ELSE pf' = [pf EXCEPT !.ops[o].pc = "done", !.ops[o].error = "StorageError"]
    /\ UNCHANGED pipelineVars

\* UPDATE model_versions SET is_active = 1 WHERE version = ?; no row changed
\* is an error
SetActivate(o) ==
    /\ pf.ops[o].pc = "write"
    /\ pf.ops[o].name = "setActiveModel"
    /\ IF pf.registry[pf.ops[o].version] # "absent"
          THEN pf' = [pf EXCEPT !.registry[pf.ops[o].version] = "active",
                                !.ops[o].pc = "done"]
          ELSE pf' = [pf EXCEPT !.ops[o].pc = "done", !.ops[o].error = "StorageError"]
    /\ UNCHANGED pipelineVars

NextRegistry ==
    \/ \E o \in 1..MaxOperations, version \in Versions :
          BeginOperation(o, "registerModelVersion", version)
    \/ \E o \in 1..MaxOperations, version \in Versions :
          BeginOperation(o, "setActiveModel", version)
    \/ \E o \in 1..MaxOperations : Deactivate(o)
    \/ \E o \in 1..MaxOperations : RegisterInsert(o)
    \/ \E o \in 1..MaxOperations : SetActivate(o)

SpecRegistry == InitRegistry /\ [][NextRegistry]_vars

\* C28: after any sequence and interleaving of registerModelVersion and
\* setActiveModel calls at most one model version is marked active.
C28_AtMostOneActive ==
    pf.fn = "registry" =>
        Cardinality({ v \in Versions : pf.registry[v] = "active" }) <= 1

\* C29: setActiveModel with a version that is not registered fails with
\* StorageError and leaves the registry as it was: the version active before
\* the call is still the active one.
C29_UnknownVersionLeavesRegistry ==
    pf.fn = "registry" =>
        \A o \in 1..MaxOperations :
            (/\ pf.ops[o].name = "setActiveModel"
             /\ pf.ops[o].pc = "done"
             /\ pf.ops[o].alone
             /\ pf.ops[o].before[pf.ops[o].version] = "absent"
             /\ \A q \in 1..MaxOperations \ { o } : pf.ops[q].pc = "idle")
            => (pf.ops[o].error = "StorageError" /\ pf.registry = pf.ops[o].before)


\* C30: every result of the frequency, amount and failed-transaction checks
\* has triggered exactly when its score is above 0, and carries reasons only
\* when it is triggered, whatever score_adjustment >= 0 the windows are
\* configured with, so that the aggregator's triggered filter drops no reason.
C30_ReasonsOnlyWhenTriggered ==
    CheckApplied =>
        /\ pf.output.triggered <=> pf.output.score > 0
        /\ Len(pf.output.reasons) > 0 => pf.output.triggered

====
